---- MODULE Spec2Model ----
(***************************************************************************)
(* Model of the resumable multi-file conversion pipeline of                *)
(* ai-code-converter: the Orchestrator (MultiFileConverter.convert_project *)
(* and _convert_single_file), the Progress Tracker (ProgressTracker), the  *)
(* Consistency Cache (SymbolCache) and the Discovery Engine                *)
(* (FileDiscovery.discover_files).                                         *)
(*                                                                         *)
(* Specifications:                                                         *)
(*   Spec           runs of convert_project with interruption and resume   *)
(*   GateSpec       one call of convert_project with its arguments         *)
(*                  recorded, over what an earlier run has left            *)
(*   TrackerSpec    calls on a ProgressTracker, save_state and load_state  *)
(*   CacheSpec      calls on a SymbolCache, save_to_file, load_from_file   *)
(*   DiscoverySpec  discover_files on a project root                       *)
(*                                                                         *)
(* A run is one call of convert_project.  A run can be interrupted between *)
(* two loop iterations (KeyboardInterrupt, convert_project.py:304); what   *)
(* is in memory is then lost and only the two files on disk survive: the   *)
(* state file (.conversion_state.json) and the cache file                  *)
(* (symbol_cache.json).  A later run is fresh or resumes from them.        *)
(*                                                                         *)
(* --resume names the state file of the output directory, so the file a    *)
(* run loads is the file it writes.                                        *)
(*                                                                         *)
(* Left out: the statistics and the display of the tracker and console     *)
(* output.  The two files take every write except where a specification    *)
(* says that the disk can refuse one.                                      *)
(***************************************************************************)
EXTENDS Integers, Sequences, FiniteSets, TLC

(* ------------------------------ bounds -------------------------------- *)

\* Number of candidate files the Discovery Engine returned (same list in every run).
NumFiles == 6

\* Number of runs (calls of convert_project) in one behaviour.
MaxRuns == 2

\* The longest list of files the LangGraph agent is given to convert.
MaxAgentFiles == 3

(* ------------------------- program constants -------------------------- *)

\* complete_file persists when len(completed_files) % 5 == 0.
CompletePersistEvery == 5

\* convert_project persists when files_processed % 5 == 0.
LoopPersistEvery == 5

\* get_context_for_file: max_context_items default.
MaxContextItems == 10

(* ------------------------------ inputs -------------------------------- *)

\* The candidate list in discovery order; a file is named by its rank.
Files == [i \in 1..NumFiles |-> i]

Paths == 1..NumFiles

\* What the per-file step meets for a file:
\*   ok           the oracle answers and the result is stored
\*   oracle_error chain.invoke raises inside FileConverter.convert
\*   empty        the source file is empty: convert returns before the oracle call
\*   exc_before   an exception before the oracle call (mkdir, reading the source)
\*   exc_after    an exception after the oracle answered (re-reading the source,
\*                symbol extraction)
\*   unsaved      the oracle answers and the output file cannot be written
Outcomes == {"ok", "oracle_error", "empty", "exc_before", "exc_after", "unsaved"}

\* The symbols the extraction heuristic finds in a converted file: the file
\* with rank p defines the symbol p; files of even rank define none.
SymbolsOf(p) == IF p % 2 = 1 THEN <<[source |-> p, target |-> p]>> ELSE <<>>

\* What can happen to which file: the oracle can answer or fail for every
\* file; the second file may be empty, the third may be unreadable, and the
\* step may raise after the oracle's answer for the fourth.
OutcomesOf(p) ==
    {"ok", "oracle_error"}
        \cup (IF p = 2 THEN {"empty"} ELSE {})
        \cup (IF p = 3 THEN {"exc_before"} ELSE {})
        \cup (IF p = 4 THEN {"exc_after"} ELSE {})

NoFile == [exists |-> FALSE]

(* ------------------------------ helpers ------------------------------- *)

Range(s) == {s[i] : i \in DOMAIN s}

Count(x, s) == Cardinality({i \in DOMAIN s : s[i] = x})

FailedPaths(failed) == [i \in DOMAIN failed |-> failed[i].file]

Min(a, b) == IF a < b THEN a ELSE b

LastN(s, n) == SubSeq(s, Len(s) - n + 1, Len(s))

VARIABLES
    pc,                 \* where the program is: idle, loop, done, dry, cancelled,
                        \* interrupted, raised (an exception left the loop),
                        \* no_source (ValueError: no source directory),
                        \* no_files (nothing to convert)
    runs,               \* number of runs started
    idx,                \* position of the for loop in Files
    broke,              \* the loop was left by break
    continue_on_error,  \* MultiFileConverter.continue_on_error
    tracker,            \* the ProgressTracker of the run
    cache,              \* the SymbolCache of the run
    results,            \* the results dictionary of convert_project
    disk_state,         \* content of .conversion_state.json, or NoFile
    disk_cache,         \* content of symbol_cache.json, or NoFile
    resumed,            \* history: this run loaded a state file
    loaded,             \* history: the tracker right after StartRun
    log,                \* history: the per-file steps of this run
    file_converter,     \* the FileConverter's running totals
    args,               \* history: the arguments and answers of the call of
                        \* convert_project, where they are recorded
    calls,              \* number of calls made on the object under test
    fresh,              \* a second tracker or cache, for loading into
    tree,               \* the files under the project root, in walk order
    max_files,          \* the max_files argument of discover_files
    discovered,         \* what discover_files returned
    file_discovery,     \* the FileDiscovery object: its exclude sets
    agent               \* the LangGraph agent: the node that ran last, the
                        \* convert_file steps made, and the ConversionState

\* The variables of the run.
runVars == <<pc, runs, idx, broke, continue_on_error, tracker, cache, results,
             disk_state, disk_cache, resumed, loaded, log, file_converter>>

\* The variables only the specifications of single components use.
partVars == <<calls, fresh, tree, max_files, discovered, file_discovery, agent>>

vars == <<runVars, args, partVars>>

(* -------------------------- ProgressTracker --------------------------- *)

None == 0

\* ProgressTracker.__init__: empty buckets; the state file is configured
\* when an output directory is given.
ProgressTracker(total_files, output_dir, now) ==
    [total_files     |-> total_files,
     completed_files |-> <<>>,
     failed_files    |-> <<>>,
     skipped_files   |-> <<>>,
     current_file    |-> None,
     start_time      |-> now,
     total_tokens    |-> 0,
     total_cost      |-> 0,
     tokens_per_file |-> <<>>,
     cost_per_file   |-> <<>>,
     state_file      |-> output_dir]

\* datetime.now() inside a tracker call: the calls of one tracker follow
\* each other, so the time of a call is the start time plus the number of
\* outcomes recorded before it, plus one.
Now(tr) ==
    tr.start_time + Len(tr.completed_files) + Len(tr.failed_files)
        + Len(tr.skipped_files) + 1

\* Mutant of save_state: the completed list is not written.
save_state_drops_completed(tr, disk) ==
    IF ~tr.state_file THEN disk
    ELSE [exists          |-> TRUE,
          parsable        |-> TRUE,
          total_files     |-> tr.total_files,
          completed_files |-> <<>>,
          failed_files    |-> tr.failed_files,
          skipped_files   |-> tr.skipped_files,
          total_tokens    |-> tr.total_tokens,
          total_cost      |-> tr.total_cost,
          tokens_per_file |-> tr.tokens_per_file,
          cost_per_file   |-> tr.cost_per_file,
          start_time      |-> tr.start_time]

\* ProgressTracker.save_state: overwrite the state file with the tracker's
\* fields; nothing is written when no state file is configured.
save_state(tr, disk) ==
    IF ~tr.state_file THEN disk
    ELSE [exists          |-> TRUE,
          parsable        |-> TRUE,
          total_files     |-> tr.total_files,
          completed_files |-> tr.completed_files,
          failed_files    |-> tr.failed_files,
          skipped_files   |-> tr.skipped_files,
          total_tokens    |-> tr.total_tokens,
          total_cost      |-> tr.total_cost,
          tokens_per_file |-> tr.tokens_per_file,
          cost_per_file   |-> tr.cost_per_file,
          start_time      |-> tr.start_time]

\* The keys load_state reads, in the order of its assignments.
LoadOrder ==
    <<"total_files", "completed_files", "failed_files", "skipped_files",
      "total_tokens", "total_cost", "tokens_per_file", "cost_per_file",
      "start_time">>

\* state[key] raises KeyError for an absent key; skipped_files is read with
\* state.get(key, []) and never raises.
Raises(disk, key) == key # "skipped_files" /\ key \notin DOMAIN disk

\* The position in LoadOrder at which load_state leaves the try block:
\* the first key whose read raises, or one past the end.
StoppedAt(disk) ==
    LET bad == {i \in DOMAIN LoadOrder : Raises(disk, LoadOrder[i])}
    IN  IF bad = {} THEN Len(LoadOrder) + 1
        ELSE CHOOSE i \in bad : \A j \in bad : i <= j

\* Mutant of load_state: the skipped list is not restored.
load_state_without_skipped(tr, disk) ==
    IF ~disk.exists \/ ~disk.parsable THEN [tracker |-> tr, ok |-> FALSE]
    ELSE LET stop == StoppedAt(disk)
             Assigned(key) == \E i \in 1..(stop - 1) : LoadOrder[i] = key
             Take(key, old) == IF Assigned(key) THEN disk[key] ELSE old
         IN  [tracker |->
                [tr EXCEPT
                   !.total_files     = Take("total_files", @),
                   !.completed_files = Take("completed_files", @),
                   !.failed_files    = Take("failed_files", @),
                   !.total_tokens    = Take("total_tokens", @),
                   !.total_cost      = Take("total_cost", @),
                   !.tokens_per_file = Take("tokens_per_file", @),
                   !.cost_per_file   = Take("cost_per_file", @),
                   !.start_time      = Take("start_time", @)],
              ok |-> stop > Len(LoadOrder)]

\* ProgressTracker.load_state: open and parse the file, then assign the
\* fields one after the other.  A file that cannot be opened or parsed
\* leaves the tracker as it is; a missing key ends the assignments where it
\* is read, and the fields assigned before it keep the file's values.  The
\* exception is caught and False is returned.
load_state(tr, disk) ==
    IF ~disk.exists \/ ~disk.parsable THEN [tracker |-> tr, ok |-> FALSE]
    ELSE LET stop == StoppedAt(disk)
             Assigned(key) == \E i \in 1..(stop - 1) : LoadOrder[i] = key
             Take(key, old) == IF Assigned(key) THEN disk[key] ELSE old
         IN  [tracker |->
                [tr EXCEPT
                   !.total_files     = Take("total_files", @),
                   !.completed_files = Take("completed_files", @),
                   !.failed_files    = Take("failed_files", @),
                   !.skipped_files   =
                        IF ~Assigned("skipped_files") THEN @
                        ELSE IF "skipped_files" \in DOMAIN disk
                             THEN disk.skipped_files ELSE <<>>,
                   !.total_tokens    = Take("total_tokens", @),
                   !.total_cost      = Take("total_cost", @),
                   !.tokens_per_file = Take("tokens_per_file", @),
                   !.cost_per_file   = Take("cost_per_file", @),
                   !.start_time      = Take("start_time", @)],
              ok |-> stop > Len(LoadOrder)]

\* Mutant of should_process_file: the completed list is not consulted.
should_process_file_ignores_completed(tr, file) ==
    /\ file \notin Range(FailedPaths(tr.failed_files))
    /\ file \notin Range(tr.skipped_files)

\* Mutant of should_process_file: the failed list is not consulted.
should_process_file_ignores_failed(tr, file) ==
    /\ file \notin Range(tr.completed_files)
    /\ file \notin Range(tr.skipped_files)

\* ProgressTracker.should_process_file
should_process_file(tr, file) ==
    /\ file \notin Range(tr.completed_files)
    /\ file \notin Range(FailedPaths(tr.failed_files))
    /\ file \notin Range(tr.skipped_files)

\* ProgressTracker.start_file
start_file(tr, file) == [tr EXCEPT !.current_file = file]

\* d[key] = value on a dictionary, kept as the sequence of its items in
\* insertion order: a known key keeps its place and takes the new value.
DictSet(d, key, value) ==
    IF \E i \in DOMAIN d : d[i].key = key
    THEN [i \in DOMAIN d |-> IF d[i].key = key
                             THEN [key |-> key, value |-> value] ELSE d[i]]
    ELSE Append(d, [key |-> key, value |-> value])

\* Mutant of complete_file: the tokens are added to the total and not
\* entered for the file.
complete_file_without_file_tokens(tr, disk, file, tokens_used, cost) ==
    LET t1 == [tr EXCEPT
                 !.completed_files = Append(@, file),
                 !.current_file = None,
                 !.total_tokens = IF tokens_used # 0 THEN @ + tokens_used ELSE @,
                 !.cost_per_file = IF cost # 0 THEN DictSet(@, file, cost) ELSE @,
                 !.total_cost = IF cost # 0 THEN @ + cost ELSE @]
    IN  [tracker    |-> t1,
         disk_state |-> IF Len(t1.completed_files) % CompletePersistEvery = 0
                        THEN save_state(t1, disk) ELSE disk]

\* Mutant of complete_file: a completion takes the file out of the failed
\* list.
complete_file_clears_failure(tr, disk, file, tokens_used, cost) ==
    LET t1 == [tr EXCEPT
                 !.completed_files = Append(@, file),
                 !.failed_files = SelectSeq(@, LAMBDA e : e.file # file),
                 !.current_file = None,
                 !.tokens_per_file =
                     IF tokens_used # 0 THEN DictSet(@, file, tokens_used) ELSE @,
                 !.total_tokens = IF tokens_used # 0 THEN @ + tokens_used ELSE @,
                 !.cost_per_file = IF cost # 0 THEN DictSet(@, file, cost) ELSE @,
                 !.total_cost = IF cost # 0 THEN @ + cost ELSE @]
    IN  [tracker    |-> t1,
         disk_state |-> IF Len(t1.completed_files) % CompletePersistEvery = 0
                        THEN save_state(t1, disk) ELSE disk]

\* ProgressTracker.complete_file: append, add the tokens and the cost when
\* they are not zero, then persist on every 5th entry of the completed
\* list.
complete_file(tr, disk, file, tokens_used, cost) ==
    LET t1 == [tr EXCEPT
                 !.completed_files = Append(@, file),
                 !.current_file = None,
                 !.tokens_per_file =
                     IF tokens_used # 0 THEN DictSet(@, file, tokens_used) ELSE @,
                 !.total_tokens = IF tokens_used # 0 THEN @ + tokens_used ELSE @,
                 !.cost_per_file = IF cost # 0 THEN DictSet(@, file, cost) ELSE @,
                 !.total_cost = IF cost # 0 THEN @ + cost ELSE @]
    IN  [tracker    |-> t1,
         disk_state |-> IF Len(t1.completed_files) % CompletePersistEvery = 0
                        THEN save_state(t1, disk) ELSE disk]

\* Mutant of fail_file: the failure is recorded in memory but not persisted.
fail_file_without_save(tr, disk, file, error) ==
    LET t1 == [tr EXCEPT
                 !.failed_files = Append(@, [file |-> file, error |-> error,
                                             timestamp |-> Now(tr)]),
                 !.current_file = None]
    IN  [tracker |-> t1, disk_state |-> disk]

\* Mutant of fail_file: the failure is displayed but not recorded.
fail_file_not_recorded(tr, disk, file, error) ==
    LET t1 == [tr EXCEPT !.current_file = None]
    IN  [tracker |-> t1, disk_state |-> save_state(t1, disk)]

\* ProgressTracker.fail_file: append {file, error, timestamp}, then persist.
fail_file(tr, disk, file, error) ==
    LET t1 == [tr EXCEPT
                 !.failed_files = Append(@, [file |-> file, error |-> error,
                                             timestamp |-> Now(tr)]),
                 !.current_file = None]
    IN  [tracker |-> t1, disk_state |-> save_state(t1, disk)]

\* ProgressTracker.skip_file
skip_file(tr, file) == [tr EXCEPT !.skipped_files = Append(@, file)]

(* ----------------------------- SymbolCache ---------------------------- *)

\* SymbolCache.__init__
SymbolCache ==
    [symbol_mappings   |-> <<>>,
     type_mappings     |-> <<>>,
     import_mappings   |-> <<>>,
     function_mappings |-> <<>>,
     class_mappings    |-> <<>>,
     patterns          |-> <<>>,
     processed_files   |-> {},
     stats             |-> [total_symbols |-> 0, reused_symbols |-> 0,
                            files_processed |-> 0]]

\* The kinds of symbol add_conversion files under an index of their own.
SymbolTypes == {"class", "function", "type", "import"}

\* Mutant of Upsert: a known source keeps its target.
Upsert_keeps_first(m, source, target) ==
    IF \E i \in DOMAIN m : m[i].source = source
    THEN m
    ELSE Append(m, [source |-> source, target |-> target])

\* Mutant of Upsert: an entry is appended for a known source too.
Upsert_always_appends(m, source, target) ==
    Append(m, [source |-> source, target |-> target])

\* m[source] = target on an index, an insertion-ordered dictionary: a known
\* source keeps its place and takes the new target.
Upsert(m, source, target) ==
    LET at == {i \in DOMAIN m : m[i].source = source}
    IN  IF at = {}
        THEN Append(m, [source |-> source, target |-> target])
        ELSE [i \in DOMAIN m |-> IF i \in at
                                 THEN [source |-> source, target |-> target]
                                 ELSE m[i]]

\* Mutant of add_conversion: the class index is not written.
add_conversion_without_class_index(ca, source, target, symbol_type) ==
    [ca EXCEPT
       !.symbol_mappings   = Upsert(@, source, target),
       !.function_mappings =
           IF symbol_type = "function" THEN Upsert(@, source, target) ELSE @,
       !.type_mappings     =
           IF symbol_type = "type" THEN Upsert(@, source, target) ELSE @,
       !.import_mappings   =
           IF symbol_type = "import" THEN Upsert(@, source, target) ELSE @,
       !.stats.total_symbols = @ + 1]

\* SymbolCache.add_conversion: the general index always, the index of the
\* symbol's kind when it has one, and the counter of additions.
add_conversion(ca, source, target, symbol_type) ==
    [ca EXCEPT
       !.symbol_mappings   = Upsert(@, source, target),
       !.class_mappings    =
           IF symbol_type = "class" THEN Upsert(@, source, target) ELSE @,
       !.function_mappings =
           IF symbol_type = "function" THEN Upsert(@, source, target) ELSE @,
       !.type_mappings     =
           IF symbol_type = "type" THEN Upsert(@, source, target) ELSE @,
       !.import_mappings   =
           IF symbol_type = "import" THEN Upsert(@, source, target) ELSE @,
       !.stats.total_symbols = @ + 1]

\* Mutant of get_conversion: a miss is counted as a reuse too.
get_conversion_counts_misses(ca, source) ==
    LET at == {i \in DOMAIN ca.symbol_mappings :
                  ca.symbol_mappings[i].source = source}
    IN  [cache  |-> [ca EXCEPT !.stats.reused_symbols = @ + 1],
         found  |-> at # {},
         target |-> IF at = {} THEN None
                    ELSE ca.symbol_mappings[CHOOSE i \in at : TRUE].target]

\* SymbolCache.get_conversion: the target of a known source, and the
\* counter of reuses; None for an unknown source.
get_conversion(ca, source) ==
    LET at == {i \in DOMAIN ca.symbol_mappings :
                  ca.symbol_mappings[i].source = source}
    IN  IF at = {}
        THEN [cache |-> ca, found |-> FALSE, target |-> None]
        ELSE [cache  |-> [ca EXCEPT !.stats.reused_symbols = @ + 1],
              found  |-> TRUE,
              target |-> ca.symbol_mappings[CHOOSE i \in at : TRUE].target]

\* SymbolCache.add_pattern: append a pattern the list does not hold.
add_pattern(ca, pattern) ==
    IF \E i \in DOMAIN ca.patterns : ca.patterns[i] = pattern
    THEN ca
    ELSE [ca EXCEPT !.patterns = Append(@, pattern)]

RECURSIVE add_all(_, _)
add_all(ca, syms) ==
    IF syms = <<>> THEN ca
    ELSE add_all(add_conversion(ca, Head(syms).source, Head(syms).target, "class"),
                 Tail(syms))

\* SymbolCache.extract_symbols_from_code: add what the heuristic finds.
extract_symbols_from_code(ca, file) == add_all(ca, SymbolsOf(file))

\* SymbolCache.get_context_for_file: the last symbol_count entries of the
\* general index, in the order of the dictionary, where symbol_count is
\* min(max_context_items, len(symbol_mappings)); none when that is not
\* positive.
get_context_for_file(ca, max_context_items) ==
    LET symbol_count == Min(max_context_items, Len(ca.symbol_mappings))
    IN  [cached_symbols |->
            IF symbol_count > 0 THEN LastN(ca.symbol_mappings, symbol_count)
            ELSE <<>>]

\* SymbolCache.mark_file_processed
mark_file_processed(ca, file) ==
    [ca EXCEPT !.processed_files = @ \cup {file},
               !.stats.files_processed = @ + 1]

\* list(a_set): the elements one after the other, in an order the program
\* does not control.
RECURSIVE ListOf(_)
ListOf(S) ==
    IF S = {} THEN <<>>
    ELSE LET x == CHOOSE y \in S : TRUE IN <<x>> \o ListOf(S \ {x})

\* SymbolCache.save_to_file: the eight entries of cache_data; the set of
\* processed files is written as a list.  nulls names the entries whose
\* value in the file is null: none in a file the program writes.
save_to_file(ca) ==
    [exists            |-> TRUE,
     parsable          |-> TRUE,
     nulls             |-> {},
     symbol_mappings   |-> ca.symbol_mappings,
     type_mappings     |-> ca.type_mappings,
     import_mappings   |-> ca.import_mappings,
     function_mappings |-> ca.function_mappings,
     class_mappings    |-> ca.class_mappings,
     patterns          |-> ca.patterns,
     processed_files   |-> ListOf(ca.processed_files),
     stats             |-> ca.stats]

\* cache_data.get(key, default)
Get(disk, key, default) == IF key \in DOMAIN disk THEN disk[key] ELSE default

\* Mutant of load_from_file: the pattern list is not restored.
load_from_file_without_patterns(ca, disk) ==
    IF ~disk.exists \/ ~disk.parsable THEN [cache |-> ca, ok |-> FALSE]
    ELSE LET c1 == [ca EXCEPT
                      !.symbol_mappings   = Get(disk, "symbol_mappings", <<>>),
                      !.type_mappings     = Get(disk, "type_mappings", <<>>),
                      !.import_mappings   = Get(disk, "import_mappings", <<>>),
                      !.function_mappings = Get(disk, "function_mappings", <<>>),
                      !.class_mappings    = Get(disk, "class_mappings", <<>>)]
         IN  IF "processed_files" \in disk.nulls
             THEN [cache |-> c1, ok |-> FALSE]
             ELSE [cache |->
                      [c1 EXCEPT
                         !.processed_files = Range(Get(disk, "processed_files", <<>>)),
                         !.stats = Get(disk, "stats", SymbolCache.stats)],
                   ok |-> TRUE]

\* SymbolCache.load_from_file: open and parse the file, then assign the
\* fields one after the other, each with cache_data.get(key, default).  A
\* file that cannot be opened or parsed leaves the cache as it is.
\* set(...) raises on a processed_files entry that is null, after the five
\* indexes and the patterns have been assigned.  The exception is caught
\* and False is returned.
load_from_file(ca, disk) ==
    IF ~disk.exists \/ ~disk.parsable THEN [cache |-> ca, ok |-> FALSE]
    ELSE LET c1 == [ca EXCEPT
                      !.symbol_mappings   = Get(disk, "symbol_mappings", <<>>),
                      !.type_mappings     = Get(disk, "type_mappings", <<>>),
                      !.import_mappings   = Get(disk, "import_mappings", <<>>),
                      !.function_mappings = Get(disk, "function_mappings", <<>>),
                      !.class_mappings    = Get(disk, "class_mappings", <<>>),
                      !.patterns          = Get(disk, "patterns", <<>>)]
         IN  IF "processed_files" \in disk.nulls
             THEN [cache |-> c1, ok |-> FALSE]
             ELSE [cache |->
                      [c1 EXCEPT
                         !.processed_files = Range(Get(disk, "processed_files", <<>>)),
                         !.stats = Get(disk, "stats", SymbolCache.stats)],
                   ok |-> TRUE]

(* ------------------------ FileConverter.convert ----------------------- *)

\* The variables convert hands to the prompt chain (chain.invoke): the two
\* languages and the source text, here the file's name.
Request(file) ==
    [source_lang |-> "python", target_lang |-> "javascript", source_code |-> file]

\* FileConverter.__init__: the running totals.
FileConverter == [total_tokens_used |-> 0, total_cost |-> 0]

\* What the usage callback reports for the oracle call on a file
\* (cb.total_tokens, cb.total_cost).
Usage(file) == [total_tokens |-> file, total_cost |-> file]

\* convert after an answer of the oracle: the call's usage is added to the
\* running totals, and the totals are what the result reports.
Answered(fc, file) ==
    LET fc1 == [total_tokens_used |-> fc.total_tokens_used + Usage(file).total_tokens,
                total_cost        |-> fc.total_cost + Usage(file).total_cost]
    IN  [raised |-> FALSE, success |-> TRUE, error |-> "",
         requests |-> <<Request(file)>>,
         tokens_used |-> fc1.total_tokens_used, cost |-> fc1.total_cost,
         file_converter |-> fc1]

\* convert without an answer: an error result, or an exception.
Unanswered(fc, raised, error, requests) ==
    [raised |-> raised, success |-> FALSE, error |-> error,
     requests |-> requests, tokens_used |-> 0, cost |-> 0,
     file_converter |-> fc]

\* Mutant of convert: the oracle is called a second time after an error.
convert_retries_after_error(fc, file, outcome) ==
    CASE outcome = "exc_before" -> Unanswered(fc, TRUE, "exception", <<>>)
      [] outcome = "empty" ->
            Unanswered(fc, FALSE, "Source file is empty", <<>>)
      [] outcome = "oracle_error" ->
            Unanswered(fc, FALSE, "oracle error", <<Request(file), Request(file)>>)
      [] OTHER -> Answered(fc, file)

\* Mutant of convert: the empty-source check is missing.
convert_without_empty_check(fc, file, outcome) ==
    CASE outcome = "exc_before" -> Unanswered(fc, TRUE, "exception", <<>>)
      [] outcome \in {"oracle_error", "empty"} ->
            Unanswered(fc, FALSE, "oracle error", <<Request(file)>>)
      [] OTHER -> Answered(fc, file)

\* FileConverter.convert(file_path): the requests it sent to the oracle and
\* what it returned, or raised.
convert(fc, file, outcome) ==
    CASE outcome = "exc_before" -> Unanswered(fc, TRUE, "exception", <<>>)
      [] outcome = "empty" ->
            Unanswered(fc, FALSE, "Source file is empty", <<>>)
      [] outcome = "oracle_error" ->
            Unanswered(fc, FALSE, "oracle error", <<Request(file)>>)
      [] OTHER -> Answered(fc, file)

(* -------------------------- MultiFileConverter ------------------------ *)

\* Mutant of convert_single_file's failure branches: the exception handler
\* records the failure a second time.
record_failure_twice(tr, disk, file, error) ==
    LET f1 == fail_file(tr, disk, file, error)
    IN  fail_file(f1.tracker, f1.disk_state, file, error)

\* The two places of _convert_single_file that mark the file as failed
\* (the else branch and the except clause).
record_failure(tr, disk, file, error) == fail_file(tr, disk, file, error)

\* FileConverter.save_output: False for a result without success; otherwise
\* the text is written, and an exception of the write is caught and turned
\* into False.
save_output(result, outcome) ==
    IF ~result.success THEN FALSE ELSE outcome # "unsaved"

\* MultiFileConverter._convert_single_file: the context is computed from the
\* cache, the converter is called with the file alone, and the outcome is
\* recorded in the tracker (and, on success, in the cache).  Everything
\* that raises does so inside the try block, so nothing is propagated.
convert_single_file(tr, ca, fc, disk, file, outcome) ==
    LET t0      == start_file(tr, file)
        context == get_context_for_file(ca, MaxContextItems)
        result  == convert(fc, file, outcome)
        entry   == [file     |-> file,
                    outcome  |-> outcome,
                    context  |-> context,
                    requests |-> result.requests,
                    saved    |-> save_output(result, outcome)]
    IN  IF result.raised \/ (result.success /\ outcome = "exc_after")
        THEN LET f == record_failure(t0, disk, file, "exception")
             IN  [tracker |-> f.tracker, cache |-> ca, disk_state |-> f.disk_state,
                  file_converter |-> result.file_converter,
                  success |-> FALSE, propagated |-> FALSE, entry |-> entry]
        ELSE IF result.success
        THEN LET c1 == extract_symbols_from_code(ca, file)
                 d  == complete_file(t0, disk, file, result.tokens_used, result.cost)
                 c2 == mark_file_processed(c1, file)
             IN  [tracker |-> d.tracker, cache |-> c2, disk_state |-> d.disk_state,
                  file_converter |-> result.file_converter,
                  success |-> TRUE, propagated |-> FALSE, entry |-> entry]
        ELSE LET f == record_failure(t0, disk, file, result.error)
             IN  [tracker |-> f.tracker, cache |-> ca, disk_state |-> f.disk_state,
                  file_converter |-> result.file_converter,
                  success |-> FALSE, propagated |-> FALSE, entry |-> entry]

\* Mutant of save_both: only the tracker's state is written.
save_both_without_cache(tr, ca, dstate, dcache) ==
    [disk_state |-> save_state(tr, dstate), disk_cache |-> dcache]

\* MultiFileConverter._save_state: the state file, then the cache file.
save_both(tr, ca, dstate, dcache) ==
    [disk_state |-> save_state(tr, dstate), disk_cache |-> save_to_file(ca)]

\* Mutant of count_result: a failed file is counted as processed only.
count_result_forgets_failed(res, success) ==
    [res EXCEPT !.files_processed = @ + 1,
                !.files_succeeded = IF success THEN @ + 1 ELSE @]

\* convert_project, the counters after a per-file step.
count_result(res, success) ==
    [res EXCEPT !.files_processed = @ + 1,
                !.files_succeeded = IF success THEN @ + 1 ELSE @,
                !.files_failed    = IF success THEN @ ELSE @ + 1]

\* Mutant of should_stop: the loop never stops on a failure.
should_stop_never(success, coe) == FALSE

\* convert_project, the break: a failure stops the loop when
\* continue_on_error is off.
should_stop(success, coe) == ~success /\ ~coe

NewResults ==
    [success |-> TRUE, error |-> "", dry_run |-> FALSE,
     files_processed |-> 0, files_succeeded |-> 0, files_failed |-> 0]

(* ------------------------------- actions ------------------------------ *)

\* Before the first call of convert_project no tracker exists
\* (progress_tracker is None); an empty tracker stands for it.
Unstarted == ProgressTracker(NumFiles, TRUE, 0)

\* The arguments of a call that is not recorded.
NoArgs == [recorded |-> FALSE]

\* The values of the variables that belong to the specifications of single
\* components, while a run is specified.
\* ConversionAgent.convert_project: initial_state, without the messages
\* and the fields that only the prompts read.
InitialState ==
    [files_to_convert   |-> <<>>,
     current_file_index |-> 0,
     converted_files    |-> <<>>,
     failed_files       |-> <<>>,
     files_completed    |-> 0,
     files_failed       |-> 0]

\* The agent before app.invoke: no node has run.
AgentIdle == [node |-> "entry", steps |-> 0, state |-> InitialState]

PartIdle ==
    /\ calls = 0
    /\ fresh = [stage |-> "none"]
    /\ tree = <<>>
    /\ max_files = 0
    /\ discovered = <<>>
    /\ file_discovery = [exclude_dirs |-> {}, exclude_patterns |-> {}]
    /\ agent = AgentIdle

\* The variables of the run before the first run.
RunInit ==
    /\ pc = "idle"
    /\ runs = 0
    /\ idx = 1
    /\ broke = FALSE
    /\ continue_on_error = TRUE
    /\ tracker = Unstarted
    /\ cache = SymbolCache
    /\ file_converter = FileConverter
    /\ results = NewResults
    /\ disk_state = NoFile
    /\ disk_cache = NoFile
    /\ resumed = FALSE
    /\ loaded = Unstarted
    /\ log = <<>>

Init ==
    /\ RunInit
    /\ args = NoArgs
    /\ PartIdle

\* Mutant of entry_check: an empty candidate list is not looked at.
entry_check_ignores_empty_list(source_exists, found) ==
    IF ~source_exists THEN "raise" ELSE "go"

\* convert_project before the tracker is built: a source directory that
\* does not exist raises ValueError, and an empty candidate list returns
\* the error result.
entry_check(source_exists, found) ==
    IF ~source_exists THEN "raise"
    ELSE IF found = <<>> THEN "no_files"
    ELSE "go"

\* Mutant of gate: the answer to the confirmation is not looked at.
gate_without_confirmation(resume_from, dry_run, response) ==
    IF ~resume_from /\ dry_run THEN "dry" ELSE "loop"

\* convert_project between the tracker and the loop: without resume_from
\* the cost is estimated, a dry run returns and the confirmation is asked;
\* with resume_from none of this is done.
gate(resume_from, dry_run, response) ==
    IF ~resume_from /\ dry_run THEN "dry"
    ELSE IF ~resume_from /\ response # "y" THEN "cancelled"
    ELSE "loop"

\* main (convert_project.py) and convert_project up to the loop: check the
\* source directory and the candidate list, build the tracker and the
\* cache, load them when resuming, and pass the cost estimate and the
\* confirmation when not resuming.
Begin(resume_from, dry_run, response, coe, source_exists, found) ==
    /\ pc \in {"idle", "done", "dry", "cancelled", "interrupted", "raised",
               "save_failed", "no_source", "no_files"}
    /\ runs < MaxRuns
    /\ runs' = runs + 1
    /\ continue_on_error' = coe
    /\ idx' = 1
    /\ broke' = FALSE
    /\ log' = <<>>
    /\ file_converter' = FileConverter
    /\ IF entry_check(source_exists, found) # "go"
       THEN /\ tracker' = Unstarted
            /\ cache' = SymbolCache
            /\ loaded' = Unstarted
            /\ resumed' = FALSE
            /\ IF entry_check(source_exists, found) = "raise"
               THEN /\ pc' = "no_source"
                    /\ results' = NewResults
               ELSE /\ pc' = "no_files"
                    /\ results' = [NewResults EXCEPT !.success = FALSE,
                                                     !.error = "No files found"]
       ELSE /\ LET load == resume_from /\ disk_state.exists
                   t0   == ProgressTracker(Len(Files), TRUE, runs + 1)
                   t1   == IF load THEN load_state(t0, disk_state).tracker ELSE t0
                   c1   == IF load THEN load_from_file(SymbolCache, disk_cache).cache
                           ELSE SymbolCache
               IN  /\ tracker' = t1
                   /\ cache' = c1
                   /\ loaded' = t1
                   /\ resumed' = load
            /\ pc' = gate(resume_from, dry_run, response)
            /\ results' =
                 CASE gate(resume_from, dry_run, response) = "dry" ->
                        [NewResults EXCEPT !.dry_run = TRUE]
                   [] gate(resume_from, dry_run, response) = "cancelled" ->
                        [NewResults EXCEPT !.success = FALSE,
                                           !.error = "User cancelled"]
                   [] OTHER -> NewResults
    /\ UNCHANGED <<disk_state, disk_cache, partVars>>

\* A run starts.
StartRun(resume_from, dry_run, response, coe, source_exists, found) ==
    /\ Begin(resume_from, dry_run, response, coe, source_exists, found)
    /\ UNCHANGED args

\* One iteration of the for loop on a file that is already in a bucket.
SkipProcessed ==
    /\ pc = "loop"
    /\ ~broke
    /\ idx <= Len(Files)
    /\ ~should_process_file(tracker, Files[idx])
    /\ idx' = idx + 1
    /\ UNCHANGED <<pc, runs, broke, continue_on_error, tracker, cache, results,
                   disk_state, disk_cache, resumed, loaded, log, file_converter,
                   args, partVars>>

\* What the two writes of a persist leave and whether the persist raised.
\* ProgressTracker.save_state writes inside try/except: when the state
\* file cannot be written a warning is printed and the file stays as it
\* was.  SymbolCache.save_to_file writes without one: when the cache file
\* cannot be written the exception leaves _save_state.
persist(saved, dstate, dcache, state_writable, cache_writable) ==
    [disk_state |-> IF state_writable THEN saved.disk_state ELSE dstate,
     disk_cache |-> IF cache_writable THEN saved.disk_cache ELSE dcache,
     raised     |-> ~cache_writable]

\* One iteration of the for loop on a file to process: the per-file step,
\* the counters, the break and the periodic save, on a disk where the state
\* file and the cache file can or cannot be written during the iteration.
\* An exception of the periodic save leaves convert_project.
LoopStep(outcome, state_writable, cache_writable) ==
    /\ pc = "loop"
    /\ ~broke
    /\ idx <= Len(Files)
    /\ should_process_file(tracker, Files[idx])
    /\ LET r    == convert_single_file(tracker, cache, file_converter, disk_state,
                                       Files[idx], outcome)
           res  == count_result(results, r.success)
           stop == should_stop(r.success, continue_on_error)
           due  == ~stop /\ res.files_processed % LoopPersistEvery = 0
           step == IF state_writable THEN r.disk_state ELSE disk_state
           sv   == IF due
                   THEN persist(save_both(r.tracker, r.cache, r.disk_state, disk_cache),
                                disk_state, disk_cache, state_writable, cache_writable)
                   ELSE [disk_state |-> step, disk_cache |-> disk_cache,
                         raised |-> FALSE]
       IN  /\ tracker' = r.tracker
           /\ cache' = r.cache
           /\ file_converter' = r.file_converter
           /\ log' = Append(log, r.entry)
           /\ results' = res
           /\ broke' = stop
           /\ disk_state' = sv.disk_state
           /\ disk_cache' = sv.disk_cache
           /\ pc' = IF r.propagated THEN "raised"
                    ELSE IF sv.raised THEN "save_failed" ELSE pc
    /\ idx' = idx + 1
    /\ UNCHANGED <<runs, continue_on_error, resumed, loaded, args, partVars>>

\* The iteration on a disk that takes every write.
ConvertFile(outcome) ==
    /\ idx <= Len(Files)
    /\ outcome \in OutcomesOf(Files[idx])
    /\ LoopStep(outcome, TRUE, TRUE)

\* After the loop: the final save, and the results are returned unless the
\* save raised.
FinalStep(state_writable, cache_writable) ==
    /\ pc = "loop"
    /\ broke \/ idx > Len(Files)
    /\ LET sv == persist(save_both(tracker, cache, disk_state, disk_cache),
                         disk_state, disk_cache, state_writable, cache_writable)
       IN  /\ disk_state' = sv.disk_state
           /\ disk_cache' = sv.disk_cache
           /\ pc' = IF sv.raised THEN "save_failed" ELSE "done"
    /\ UNCHANGED <<runs, idx, broke, continue_on_error, tracker, cache, results,
                   resumed, loaded, log, file_converter, args, partVars>>

\* The end of the run on a disk that takes every write.
Finish ==
    /\ pc = "loop"
    /\ FinalStep(TRUE, TRUE)

\* The run is interrupted between two steps: only the files on disk
\* survive, for the run that comes after (the last run of a behaviour has
\* none after it).
Interrupt ==
    /\ pc = "loop"
    /\ runs < MaxRuns
    /\ pc' = "interrupted"
    /\ UNCHANGED <<runs, idx, broke, continue_on_error, tracker, cache, results,
                   disk_state, disk_cache, resumed, loaded, log, file_converter,
                   args, partVars>>

\* The runs of this specification are given a source directory that exists
\* and holds the candidates; there is an answer to the confirmation only
\* when the question is asked.
Next ==
    \/ \E resume_from \in BOOLEAN, dry_run \in BOOLEAN, coe \in BOOLEAN :
          \E response \in (IF resume_from \/ dry_run THEN {"none"} ELSE {"y", "n"}) :
            StartRun(resume_from, dry_run, response, coe, TRUE, Files)
    \/ SkipProcessed
    \/ \E outcome \in Outcomes : ConvertFile(outcome)
    \/ Finish
    \/ Interrupt

Spec == Init /\ [][Next]_vars

(* --------------------------- derived notions -------------------------- *)

\* The files the per-file step was started for in this run.
Attempted == {log[i].file : i \in DOMAIN log}

\* The files for which a request reached the oracle in this run.
OracleCalled == {log[i].file : i \in {j \in DOMAIN log : log[j].requests # <<>>}}

\* The files whose per-file step failed in this run.
FailedInRun == {log[i].file : i \in {j \in DOMAIN log : log[j].outcome # "ok"}}

CompletedOf(tr) == Range(tr.completed_files)
FailedOf(tr) == Range(FailedPaths(tr.failed_files))
SkippedOf(tr) == Range(tr.skipped_files)

\* The candidates that were in no bucket when the run started.
PendingAtLoad == Paths \ (CompletedOf(loaded) \cup FailedOf(loaded) \cup SkippedOf(loaded))

\* How often a path occurs in the three buckets together.
BucketCount(tr, p) ==
    Count(p, tr.completed_files) + Count(p, FailedPaths(tr.failed_files))
        + Count(p, tr.skipped_files)

\* What the state file on disk says.
PersistedCompleted == IF disk_state.exists THEN Range(disk_state.completed_files) ELSE {}
PersistedFailed == IF disk_state.exists THEN Range(disk_state.failed_files) ELSE {}
PersistedProcessed ==
    IF disk_cache.exists THEN Range(disk_cache.processed_files) ELSE {}

\* The completed paths in memory that the state file does not hold.
Unpersisted == CompletedOf(tracker) \ PersistedCompleted

(* -------------------------------- C1 ---------------------------------- *)

\* C1: in every reachable state of a fresh or resumed run each candidate is
\* in at most one of the buckets Completed, Failed, Skipped and at most once
\* in it; a candidate that was in no bucket at the start of the run and has
\* not been processed since is in none.
C1_BucketsDisjoint ==
    \A p \in Paths :
        /\ BucketCount(tracker, p) <= 1
        /\ (p \in PendingAtLoad /\ p \notin Attempted) => BucketCount(tracker, p) = 0

\* A resumed run has ended with loaded and new entries in both buckets and a
\* candidate still pending.
C1_Witness ==
    /\ pc = "done"
    /\ resumed
    /\ loaded.completed_files # <<>>
    /\ loaded.failed_files # <<>>
    /\ Len(tracker.completed_files) > Len(loaded.completed_files)
    /\ Len(tracker.failed_files) > Len(loaded.failed_files)
    /\ \E p \in Paths : BucketCount(tracker, p) = 0

(* -------------------------------- C2 ---------------------------------- *)

\* C2 as stated: a resumed run with continue-on-error that has ended has
\* invoked the oracle for exactly the candidates that were in no loaded bucket.
C2_OracleForExactlyPending ==
    (pc = "done" /\ resumed /\ continue_on_error) => OracleCalled = PendingAtLoad

\* C2 amended: such a run has started the per-file step for exactly the
\* candidates that were in no loaded bucket; the oracle was invoked for
\* those of them whose source could be read and was not empty, and for no
\* candidate of a loaded bucket.
C2_StepForExactlyPending ==
    (pc = "done" /\ resumed /\ continue_on_error) =>
        /\ Attempted = PendingAtLoad
        /\ Len(log) = Cardinality(PendingAtLoad)
        /\ OracleCalled =
              {log[i].file :
                  i \in {j \in DOMAIN log : log[j].outcome \notin {"empty", "exc_before"}}}
        /\ OracleCalled \cap (Paths \ PendingAtLoad) = {}

\* A resumed run with continue-on-error has ended; it passed over loaded
\* completed and failed files and processed the rest, among them an empty file.
C2_Witness ==
    /\ pc = "done"
    /\ resumed
    /\ continue_on_error
    /\ loaded.completed_files # <<>>
    /\ loaded.failed_files # <<>>
    /\ OracleCalled # {}
    /\ OracleCalled # Attempted

(* -------------------------------- C3 ---------------------------------- *)

\* C3 as stated: between two candidates the state file records every
\* completion and every failure the tracker holds.
C3_PersistedAfterEveryOutcome ==
    /\ CompletedOf(tracker) \subseteq PersistedCompleted
    /\ Range(tracker.failed_files) \subseteq PersistedFailed

\* C3 amended: between two candidates the state file records every failure
\* the tracker holds, and every completion once the completed list has a
\* multiple of five entries; otherwise it lacks at most four completions.
C3_PersistedOnFailureAndEveryFifth ==
    /\ Range(tracker.failed_files) \subseteq PersistedFailed
    /\ Len(tracker.completed_files) % CompletePersistEvery = 0 => Unpersisted = {}
    /\ Cardinality(Unpersisted) <= CompletePersistEvery - 1

\* A resumed run persisted at the fifth entry of the completed list, which
\* was its third file, and the state file holds the loaded failure too.
C3_Witness ==
    /\ pc = "loop"
    /\ resumed
    /\ Len(tracker.completed_files) = CompletePersistEvery
    /\ results.files_processed = 3
    /\ tracker.failed_files # <<>>
    /\ disk_state.completed_files = tracker.completed_files
    /\ disk_state.failed_files = tracker.failed_files

(* -------------------------------- C4 ---------------------------------- *)

\* C4: with a state file configured (and writes that succeed), at most four
\* of the completed paths in memory are absent from the state file, in
\* fresh and in resumed runs.
C4_AtMostFourUnpersisted ==
    tracker.state_file => Cardinality(Unpersisted) <= 4

\* A resumed run holds four completions that are not yet in the state file.
C4_Witness ==
    /\ pc = "loop"
    /\ resumed
    /\ tracker.state_file
    /\ Cardinality(Unpersisted) = 4

(* -------------------------------- C5 ---------------------------------- *)

\* C5: at any point where the run can be interrupted, every path in the
\* Completed list of the state file on disk is also in processed_files of
\* the cache file on disk.
C5_CacheCoversPersistedCompleted ==
    PersistedCompleted \subseteq PersistedProcessed

(* -------------------------------- C6 ---------------------------------- *)

FailedAtLoad == FailedOf(loaded)

\* C6 as stated: a resumed run that ran its loop to the end has selected
\* exactly the paths that were Failed or Pending in the loaded state.
C6_FailedReattempted ==
    (pc = "done" /\ resumed /\ ~broke) => Attempted = FailedAtLoad \cup PendingAtLoad

\* C6 amended: at every point of a resumed run the paths selected so far are
\* exactly the Pending ones among the candidates the loop has passed, in
\* discovery order; no path that was Completed, Failed or Skipped in the
\* loaded state is selected, so a failed file is not re-attempted.
C6_OnlyPendingSelected ==
    (resumed /\ pc \in {"loop", "done", "interrupted"}) =>
        /\ Attempted = {Files[i] : i \in 1..(idx - 1)} \cap PendingAtLoad
        /\ Attempted \cap FailedAtLoad = {}
        /\ \A i, j \in DOMAIN log : i < j => log[i].file < log[j].file

\* A resumed run has ended after passing over a loaded failed file and
\* selecting the pending ones.
C6_Witness ==
    /\ pc = "done"
    /\ resumed
    /\ ~broke
    /\ FailedAtLoad # {}
    /\ Attempted # {}
    /\ Attempted = PendingAtLoad

(* -------------------------------- C7 ---------------------------------- *)

\* The cache context a request carries: none when the request has no such field.
RequestContext(r) ==
    IF "context" \in DOMAIN r THEN r.context ELSE [cached_symbols |-> <<>>]

\* C7: every request sent to the oracle carries the context that
\* get_context_for_file computed for that file, so the mappings recorded for
\* earlier files are part of it.
C7_RequestCarriesContext ==
    \A i \in DOMAIN log :
        \A k \in DOMAIN log[i].requests :
            RequestContext(log[i].requests[k]) = log[i].context

(* -------------------------------- C8 ---------------------------------- *)

\* The error text the step hands to fail_file for a failing outcome.
ExpectedError(outcome) ==
    CASE outcome = "oracle_error" -> "oracle error"
      [] outcome = "empty"        -> "Source file is empty"
      [] OTHER                    -> "exception"

\* C8: every per-file step of the run that failed, by an error result or by
\* an exception, left exactly one Failed entry for its path, with the error
\* text, and no Completed entry; and no exception left the run.
C8_FailureRecordedOnce ==
    /\ pc # "raised"
    /\ \A i \in DOMAIN log :
          log[i].outcome # "ok" =>
              /\ Count(log[i].file, FailedPaths(tracker.failed_files)) = 1
              /\ \E e \in Range(tracker.failed_files) :
                     /\ e.file = log[i].file
                     /\ e.error = ExpectedError(log[i].outcome)
              /\ log[i].file \notin CompletedOf(tracker)

\* A run has ended in which one file failed by an error result and another
\* by an exception.
C8_Witness ==
    /\ pc = "done"
    /\ \E i, j \in DOMAIN log :
          /\ log[i].outcome = "oracle_error"
          /\ log[j].outcome \in {"exc_before", "exc_after"}

(* -------------------------------- C9 ---------------------------------- *)

\* C9: a run with continue-on-error disabled in which a file failed has
\* stopped there: the failure is the last step, later candidates were not
\* selected and those that were pending are in no bucket; the state file and
\* the cache file hold what is in memory, and the result says success with
\* the files completed so far.
C9_StopOnFirstFailure ==
    (pc = "done" /\ ~continue_on_error /\ results.files_failed > 0) =>
        /\ results.files_failed = 1
        /\ log[Len(log)].outcome # "ok"
        /\ \A i \in 1..(Len(log) - 1) : log[i].outcome = "ok"
        /\ \A p \in Paths :
              p > log[Len(log)].file =>
                  /\ p \notin Attempted
                  /\ p \in PendingAtLoad => BucketCount(tracker, p) = 0
        /\ disk_state.exists
        /\ disk_state.completed_files = tracker.completed_files
        /\ disk_state.failed_files = tracker.failed_files
        /\ disk_state.skipped_files = tracker.skipped_files
        /\ disk_cache.exists
        /\ disk_cache.symbol_mappings = cache.symbol_mappings
        /\ Range(disk_cache.processed_files) = cache.processed_files
        /\ results.success
        /\ results.files_succeeded = Len(log) - 1
        /\ results.files_processed = Len(log)

\* A run with continue-on-error disabled has stopped at a failure after a
\* success, with candidates left.
C9_Witness ==
    /\ pc = "done"
    /\ ~continue_on_error
    /\ results.files_failed = 1
    /\ results.files_succeeded >= 1
    /\ \E p \in Paths : p > log[Len(log)].file /\ BucketCount(tracker, p) = 0

(* -------------------------------- C10 --------------------------------- *)

\* C10: in a fresh run with continue-on-error the counters satisfy
\* processed = succeeded + failed after every loop step, failed is the
\* number of files that failed; at the end processed is the number of
\* candidates and the Failed list of the state file holds exactly the
\* failed files, once each.
C10_CountersMatchOutcomes ==
    (~resumed /\ continue_on_error /\ pc \in {"loop", "done", "interrupted"}) =>
        /\ results.files_processed = results.files_succeeded + results.files_failed
        /\ results.files_processed = Len(log)
        /\ results.files_failed = Cardinality(FailedInRun)
        /\ pc = "done" =>
              /\ results.files_processed = Len(Files)
              /\ results.files_succeeded = Len(Files) - Cardinality(FailedInRun)
              /\ Range(FailedPaths(disk_state.failed_files)) = FailedInRun
              /\ Len(disk_state.failed_files) = Cardinality(FailedInRun)

\* A fresh run with continue-on-error has ended in which the second of the
\* candidates failed and all others were converted.
C10_Witness ==
    /\ pc = "done"
    /\ ~resumed
    /\ continue_on_error
    /\ FailedInRun = {Files[2]}
    /\ results.files_processed = Len(Files)
    /\ results.files_succeeded = Len(Files) - 1
    /\ results.files_failed = 1

(* -------------------------------- C11 --------------------------------- *)

\* C11: when the loop has ended, by exhaustion or by the stop on an error,
\* and the run has returned, the state file holds the tracker's fields as
\* they are in memory (the three lists, the total of files, tokens and cost
\* and the per-file tokens and cost) and the cache file holds the cache's
\* fields as they are in memory.
C11_BothPersistedAtEnd ==
    pc = "done" =>
        /\ disk_state.exists
        /\ disk_state.total_files = tracker.total_files
        /\ disk_state.completed_files = tracker.completed_files
        /\ disk_state.failed_files = tracker.failed_files
        /\ disk_state.skipped_files = tracker.skipped_files
        /\ disk_state.total_tokens = tracker.total_tokens
        /\ disk_state.total_cost = tracker.total_cost
        /\ disk_state.tokens_per_file = tracker.tokens_per_file
        /\ disk_state.cost_per_file = tracker.cost_per_file
        /\ disk_cache.exists
        /\ disk_cache.symbol_mappings = cache.symbol_mappings
        /\ disk_cache.class_mappings = cache.class_mappings
        /\ Range(disk_cache.processed_files) = cache.processed_files
        /\ disk_cache.stats = cache.stats

\* A run has gone through the whole candidate list, with completed and
\* failed files, tokens counted and symbols cached, and has returned.
C11_Witness ==
    /\ pc = "done"
    /\ ~broke
    /\ idx > Len(Files)
    /\ tracker.completed_files # <<>>
    /\ tracker.failed_files # <<>>
    /\ tracker.total_tokens > 0
    /\ cache.symbol_mappings # <<>>

(* ------------------- the Progress Tracker on its own ------------------ *)

\* Number of calls made on a tracker, or on a cache, used on its own.
MaxCalls == 3

\* The paths, error texts, token counts and costs the calls are made with.
ApiPaths == {1, 2}
ApiErrors == {"oracle error"}
ApiTokens == {0, 2}
ApiCosts == {0, 3}

\* What can have happened to a state file between its writing and its
\* reading: nothing, the file was removed, its text is no longer JSON, or
\* one key is absent from it.
Damages == {"none", "missing", "garbled"} \cup Range(LoadOrder)

Drop(disk, key) == [k \in DOMAIN disk \ {key} |-> disk[k]]

Damaged(disk, damage) ==
    CASE damage = "none"    -> disk
      [] damage = "missing" -> NoFile
      [] damage = "garbled" -> [exists |-> TRUE, parsable |-> FALSE]
      [] OTHER              -> Drop(disk, damage)

\* Everything but the tracker, its state file, calls and fresh.
trackerFrame ==
    <<pc, runs, idx, broke, continue_on_error, cache, results, disk_cache,
      resumed, loaded, log, file_converter, args, tree, max_files, discovered,
      file_discovery, agent>>

StartFile(file) ==
    /\ calls < MaxCalls
    /\ calls' = calls + 1
    /\ tracker' = start_file(tracker, file)
    /\ fresh' = [stage |-> "none"]
    /\ UNCHANGED <<disk_state, trackerFrame>>

CompleteFile(file, tokens_used, cost) ==
    /\ calls < MaxCalls
    /\ calls' = calls + 1
    /\ LET r == complete_file(tracker, disk_state, file, tokens_used, cost)
       IN  /\ tracker' = r.tracker
           /\ disk_state' = r.disk_state
    /\ fresh' = [stage |-> "none"]
    /\ UNCHANGED trackerFrame

FailFile(file, error) ==
    /\ calls < MaxCalls
    /\ calls' = calls + 1
    /\ LET r == fail_file(tracker, disk_state, file, error)
       IN  /\ tracker' = r.tracker
           /\ disk_state' = r.disk_state
    /\ fresh' = [stage |-> "none"]
    /\ UNCHANGED trackerFrame

SkipFile(file) ==
    /\ calls < MaxCalls
    /\ calls' = calls + 1
    /\ tracker' = skip_file(tracker, file)
    /\ fresh' = [stage |-> "none"]
    /\ UNCHANGED <<disk_state, trackerFrame>>

\* save_state is called; fresh remembers the tracker that was written.
PersistState ==
    /\ fresh.stage = "none"
    /\ disk_state' = save_state(tracker, disk_state)
    /\ fresh' = [stage |-> "saved", source |-> tracker]
    /\ UNCHANGED <<tracker, calls, trackerFrame>>

\* A new tracker is built and load_state is called on it with the state
\* file as it is found.
LoadFrom(damage) ==
    /\ fresh.stage = "saved"
    /\ LET before == ProgressTracker(0, TRUE, calls + 1)
           file   == Damaged(disk_state, damage)
           r      == load_state(before, file)
       IN  /\ disk_state' = file
           /\ fresh' = [stage   |-> "loaded",
                        source  |-> fresh.source,
                        damage  |-> damage,
                        before  |-> before,
                        tracker |-> r.tracker,
                        ok      |-> r.ok]
    /\ UNCHANGED <<tracker, calls, trackerFrame>>

TrackerNext ==
    \/ \E file \in ApiPaths : StartFile(file)
    \/ \E file \in ApiPaths, tokens_used \in ApiTokens, cost \in ApiCosts :
          CompleteFile(file, tokens_used, cost)
    \/ \E file \in ApiPaths, error \in ApiErrors : FailFile(file, error)
    \/ \E file \in ApiPaths : SkipFile(file)
    \/ PersistState
    \/ \E damage \in Damages : LoadFrom(damage)

TrackerSpec == Init /\ [][TrackerNext]_vars

(* -------------------------------- C12 --------------------------------- *)

\* C12: after save_state on a tracker reached by start_file, complete_file,
\* fail_file and skip_file calls, load_state of the written file into a new
\* tracker succeeds and the new tracker equals the written one on
\* total_files, the completed list, the failed list (file, error and
\* timestamp of every entry), the skipped list, total_tokens, total_cost,
\* tokens_per_file, cost_per_file and start_time.
C12_TrackerRoundTrip ==
    (fresh.stage = "loaded" /\ fresh.damage = "none") =>
        /\ fresh.ok
        /\ fresh.tracker.total_files = fresh.source.total_files
        /\ fresh.tracker.completed_files = fresh.source.completed_files
        /\ fresh.tracker.failed_files = fresh.source.failed_files
        /\ fresh.tracker.skipped_files = fresh.source.skipped_files
        /\ fresh.tracker.total_tokens = fresh.source.total_tokens
        /\ fresh.tracker.total_cost = fresh.source.total_cost
        /\ fresh.tracker.tokens_per_file = fresh.source.tokens_per_file
        /\ fresh.tracker.cost_per_file = fresh.source.cost_per_file
        /\ fresh.tracker.start_time = fresh.source.start_time

\* A tracker with a completed file that used tokens and cost, a failed file
\* and a skipped file was written and loaded into a new tracker.
C12_Witness ==
    /\ fresh.stage = "loaded"
    /\ fresh.damage = "none"
    /\ fresh.source.completed_files # <<>>
    /\ fresh.source.failed_files # <<>>
    /\ fresh.source.skipped_files # <<>>
    /\ fresh.source.tokens_per_file # <<>>
    /\ fresh.source.cost_per_file # <<>>
    /\ fresh.before.start_time # fresh.source.start_time
    /\ fresh.before.total_files # fresh.source.total_files

(* -------------------------------- C14 --------------------------------- *)

\* C14: when load_state fails (it returns False), the tracker it was called
\* on is the new, empty tracker it was before the call: no field holds a
\* value of the file.
C14_FailedLoadLeavesEmptyTracker ==
    (fresh.stage = "loaded" /\ ~fresh.ok) => fresh.tracker = fresh.before

(* ------------------- the Consistency Cache on its own ----------------- *)

\* Number of calls made on a cache used on its own.
MaxCacheCalls == 4

\* The symbols, the mappings and the patterns the calls are made with: a
\* mapping of every kind, and two targets for the first symbol.
ApiSymbols == {1, 2}
ApiMappings ==
    {[source |-> 1, target |-> 1, symbol_type |-> "class"],
     [source |-> 2, target |-> 2, symbol_type |-> "function"],
     [source |-> 1, target |-> 2, symbol_type |-> "general"],
     [source |-> 2, target |-> 1, symbol_type |-> "type"],
     [source |-> 1, target |-> 1, symbol_type |-> "import"]}
\* The max_context_items arguments: a negative one, none, one, the default.
ContextLimits == {-1, 0, 1, MaxContextItems}

ApiPatterns ==
    {[from |-> "snake_case", to |-> "camelCase", type |-> "naming"],
     [from |-> "PascalCase", to |-> "PascalCase", type |-> "naming"]}

\* What can have happened to a cache file between its writing and its
\* reading: nothing, the file was removed, its text is no longer JSON, its
\* processed_files entry is null, or its stats entry is absent.
CacheDamages == {"none", "missing", "garbled", "null_processed_files", "stats"}

CacheDamaged(disk, damage) ==
    CASE damage = "none"    -> disk
      [] damage = "missing" -> NoFile
      [] damage = "garbled" -> [exists |-> TRUE, parsable |-> FALSE]
      [] damage = "null_processed_files" ->
            [disk EXCEPT !.nulls = @ \cup {"processed_files"}]
      [] OTHER              -> Drop(disk, damage)

\* Everything but the cache, its file, calls, fresh and args.
cacheFrame ==
    <<pc, runs, idx, broke, continue_on_error, tracker, results, disk_state,
      resumed, loaded, log, file_converter, tree, max_files, discovered,
      file_discovery, agent>>

\* The last call made on the cache: its name and arguments, the cache
\* before it, what it returned, whether the call before it was the same
\* call with the same arguments, for every symbol the target of the
\* most recent add_conversion with that source, None when there was none,
\* and the sources in the order of their most recent add_conversion.
CacheCall(op, input, before, result, repeated, last, order) ==
    [recorded |-> TRUE, op |-> op, input |-> input, before |-> before,
     result |-> result, repeated |-> repeated, last |-> last, order |-> order]

\* No call yet.
NoCacheCall ==
    [recorded |-> FALSE, op |-> "none", input |-> <<>>, before |-> SymbolCache,
     result |-> None, repeated |-> FALSE, last |-> [s \in ApiSymbols |-> None],
     order |-> <<>>]

\* A new cache.
CacheInit == RunInit /\ PartIdle /\ args = NoCacheCall

AddMapping(source, target, symbol_type) ==
    /\ fresh.stage = "none"
    /\ calls < MaxCacheCalls
    /\ calls' = calls + 1
    /\ cache' = add_conversion(cache, source, target, symbol_type)
    /\ LET input == <<source, target, symbol_type>>
       IN  args' = CacheCall("add_conversion", input, cache, None,
                             args.op = "add_conversion" /\ args.input = input,
                             [args.last EXCEPT ![source] = target],
                             Append(SelectSeq(args.order, LAMBDA s : s # source),
                                    source))
    /\ UNCHANGED <<disk_cache, fresh, cacheFrame>>

Lookup(source) ==
    /\ fresh.stage = "none"
    /\ calls < MaxCacheCalls
    /\ calls' = calls + 1
    /\ LET r == get_conversion(cache, source)
       IN  /\ cache' = r.cache
           /\ args' = CacheCall("get_conversion", <<source>>, cache,
                                [found |-> r.found, target |-> r.target],
                                FALSE, args.last, args.order)
    /\ UNCHANGED <<disk_cache, fresh, cacheFrame>>

\* get_context_for_file is called: it assigns nothing.
ContextFor(max_context_items) ==
    /\ fresh.stage = "none"
    /\ calls < MaxCacheCalls
    /\ calls' = calls + 1
    /\ args' = CacheCall("get_context_for_file", <<max_context_items>>, cache,
                         get_context_for_file(cache, max_context_items), FALSE,
                         args.last, args.order)
    /\ UNCHANGED <<cache, disk_cache, fresh, cacheFrame>>

AddPattern(pattern) ==
    /\ fresh.stage = "none"
    /\ calls < MaxCacheCalls
    /\ calls' = calls + 1
    /\ cache' = add_pattern(cache, pattern)
    /\ args' = CacheCall("add_pattern", <<pattern>>, cache, None, FALSE, args.last,
                         args.order)
    /\ UNCHANGED <<disk_cache, fresh, cacheFrame>>

MarkProcessed(file) ==
    /\ fresh.stage = "none"
    /\ calls < MaxCacheCalls
    /\ calls' = calls + 1
    /\ cache' = mark_file_processed(cache, file)
    /\ args' = CacheCall("mark_file_processed", <<file>>, cache, None, FALSE,
                         args.last, args.order)
    /\ UNCHANGED <<disk_cache, fresh, cacheFrame>>

\* save_to_file is called; fresh remembers the cache that was written.
PersistCache ==
    /\ fresh.stage = "none"
    /\ disk_cache' = save_to_file(cache)
    /\ fresh' = [stage |-> "saved", source |-> cache]
    /\ args' = CacheCall("save_to_file", <<>>, cache, None, FALSE, args.last,
                         args.order)
    /\ UNCHANGED <<cache, calls, cacheFrame>>

\* load_from_file is called with the cache file as it is found, on a new
\* cache or on the cache in use.
LoadCache(damage, on_new) ==
    /\ fresh.stage = "saved"
    /\ LET before == IF on_new THEN SymbolCache ELSE cache
           file   == CacheDamaged(disk_cache, damage)
           r      == load_from_file(before, file)
       IN  /\ disk_cache' = file
           /\ cache' = IF on_new THEN cache ELSE r.cache
           /\ fresh' = [stage  |-> "loaded",
                        source |-> fresh.source,
                        damage |-> damage,
                        on_new |-> on_new,
                        before |-> before,
                        cache  |-> r.cache,
                        ok     |-> r.ok]
           /\ args' = CacheCall("load_from_file", <<damage, on_new>>, cache,
                                r.ok, FALSE, args.last, args.order)
    /\ UNCHANGED <<calls, cacheFrame>>

CacheNext ==
    \/ \E m \in ApiMappings : AddMapping(m.source, m.target, m.symbol_type)
    \/ \E source \in ApiSymbols : Lookup(source)
    \/ \E max_context_items \in ContextLimits : ContextFor(max_context_items)
    \/ \E pattern \in ApiPatterns : AddPattern(pattern)
    \/ \E file \in ApiPaths : MarkProcessed(file)
    \/ PersistCache
    \/ \E damage \in CacheDamages, on_new \in BOOLEAN : LoadCache(damage, on_new)

CacheSpec == CacheInit /\ [][CacheNext]_vars

(* -------------------------------- C13 --------------------------------- *)

\* C13: after save_to_file on a cache reached by add_conversion,
\* get_conversion, add_pattern and mark_file_processed calls,
\* load_from_file of the written file into a new cache succeeds and the new
\* cache equals the written one on the five indexes with their insertion
\* order, the pattern list, the set of processed files and the statistics.
C13_CacheRoundTrip ==
    (fresh.stage = "loaded" /\ fresh.damage = "none" /\ fresh.on_new) =>
        /\ fresh.ok
        /\ fresh.cache.symbol_mappings = fresh.source.symbol_mappings
        /\ fresh.cache.type_mappings = fresh.source.type_mappings
        /\ fresh.cache.import_mappings = fresh.source.import_mappings
        /\ fresh.cache.function_mappings = fresh.source.function_mappings
        /\ fresh.cache.class_mappings = fresh.source.class_mappings
        /\ fresh.cache.patterns = fresh.source.patterns
        /\ fresh.cache.processed_files = fresh.source.processed_files
        /\ fresh.cache.stats = fresh.source.stats

\* A cache with two symbols, one of them in the class index, a pattern and
\* a processed file was written and loaded into a new cache.
C13_Witness ==
    /\ fresh.stage = "loaded"
    /\ fresh.damage = "none"
    /\ fresh.on_new
    /\ Len(fresh.source.symbol_mappings) = 2
    /\ fresh.source.class_mappings # <<>>
    /\ fresh.source.patterns # <<>>
    /\ fresh.source.processed_files # {}

(* -------------------------------- C15 --------------------------------- *)

\* C15: when load_from_file fails (it returns False), every field of the
\* cache it was called on is as it was before the call.
C15_FailedLoadLeavesCache ==
    (fresh.stage = "loaded" /\ ~fresh.ok) => fresh.cache = fresh.before

(* ------------------ one call of convert_project, recorded ------------- *)

\* The per-file steps of an earlier run on the first n candidates: the
\* first k of them convert and the others fail with an oracle error.
RECURSIVE StepsOf(_, _)
StepsOf(n, k) ==
    IF n = 0
    THEN [tracker |-> ProgressTracker(Len(Files), TRUE, 0), cache |-> SymbolCache,
          file_converter |-> FileConverter, disk_state |-> NoFile]
    ELSE LET s == StepsOf(n - 1, k)
             r == convert_single_file(s.tracker, s.cache, s.file_converter,
                                      s.disk_state, Files[n],
                                      IF n <= k THEN "ok" ELSE "oracle_error")
         IN  [tracker |-> r.tracker, cache |-> r.cache,
              file_converter |-> r.file_converter, disk_state |-> r.disk_state]

\* The two files an earlier run has left that stopped on its first error,
\* after k converted candidates, and made its final save.
EarlierRun(k) ==
    LET s == StepsOf(Min(k + 1, Len(Files)), k)
    IN  save_both(s.tracker, s.cache, s.disk_state, NoFile)

\* What a call can find in the output directory: nothing, or the files of
\* an earlier run.
EarlierFiles ==
    {[disk_state |-> NoFile, disk_cache |-> NoFile]}
        \cup {EarlierRun(k) : k \in 0..Len(Files)}

\* The arguments of the call as they are recorded; the answer to the
\* confirmation exists only when the question is reached.
CallArgs(resume_from, dry_run, response, source_exists, found) ==
    [recorded      |-> TRUE,
     resume_from   |-> resume_from,
     dry_run       |-> dry_run,
     source_exists |-> source_exists,
     found         |-> found,
     response      |-> IF source_exists /\ found # <<>> /\ ~resume_from /\ ~dry_run
                       THEN response ELSE "none"]

\* The last run of a behaviour is about to start, over what an earlier run
\* has left.
GateInit ==
    /\ pc = "idle"
    /\ runs = MaxRuns - 1
    /\ idx = 1
    /\ broke = FALSE
    /\ continue_on_error = TRUE
    /\ tracker = Unstarted
    /\ cache = SymbolCache
    /\ file_converter = FileConverter
    /\ results = NewResults
    /\ \E e \in EarlierFiles :
          /\ disk_state = e.disk_state
          /\ disk_cache = e.disk_cache
    /\ resumed = FALSE
    /\ loaded = Unstarted
    /\ log = <<>>
    /\ args = NoArgs
    /\ PartIdle

\* A run starts, and its arguments are recorded.
StartRecorded(resume_from, dry_run, response, coe, source_exists, found) ==
    /\ Begin(resume_from, dry_run, response, coe, source_exists, found)
    /\ args' = CallArgs(resume_from, dry_run, response, source_exists, found)

GateNext ==
    \/ \E resume_from \in BOOLEAN, dry_run \in BOOLEAN, response \in {"y", "n"},
          coe \in BOOLEAN, source_exists \in BOOLEAN, found \in {<<>>, Files} :
            StartRecorded(resume_from, dry_run, response, coe, source_exists, found)
    \/ SkipProcessed
    \/ \E outcome \in Outcomes : ConvertFile(outcome)
    \/ Finish

GateSpec == GateInit /\ [][GateNext]_vars

(* -------------------------------- C16 --------------------------------- *)

\* C16: a call whose source directory does not exist, or whose candidate
\* list is empty, ends at once: no per-file step and no oracle call, the
\* tracker and the cache are what they were, neither file is written; the
\* missing directory raises, and the empty list is returned as a result
\* with success false.
C16_AbortBeforeAnyWork ==
    [][(args'.recorded /\ (~args'.source_exists \/ args'.found = <<>>)) =>
          /\ log' = <<>>
          /\ tracker' = tracker
          /\ cache' = cache
          /\ disk_state' = disk_state
          /\ disk_cache' = disk_cache
          /\ IF ~args'.source_exists
             THEN pc' = "no_source"
             ELSE /\ pc' = "no_files"
                  /\ ~results'.success
                  /\ results'.error = "No files found"]_vars

\* A call that asked to resume found the source directory but no
\* candidate, while the files of an earlier run were there.
C16_Witness ==
    /\ args.recorded
    /\ args.source_exists
    /\ args.found = <<>>
    /\ args.resume_from
    /\ pc = "no_files"
    /\ disk_state.exists
    /\ disk_state.completed_files # <<>>

(* -------------------------------- C17 --------------------------------- *)

\* C17: a call with dry_run set starts no per-file step, whatever the
\* other arguments are.
C17_DryRunConvertsNothing ==
    (args.recorded /\ args.dry_run) => log = <<>>

(* -------------------------------- C18 --------------------------------- *)

\* C18: in a call without resume_from and without dry_run, a per-file step
\* is started, and a file gets an outcome, only after the confirmation
\* was answered y; when it was answered otherwise the call has returned
\* success false with no oracle call and with empty Completed and Failed
\* lists.
C18_NothingBeforeConfirmation ==
    (args.recorded /\ ~args.resume_from /\ ~args.dry_run) =>
        /\ (\/ pc \in {"loop", "done"}
            \/ log # <<>>
            \/ tracker.completed_files # <<>>
            \/ tracker.failed_files # <<>>) => args.response = "y"
        /\ args.response = "n" =>
              /\ pc = "cancelled"
              /\ ~results.success
              /\ results.error = "User cancelled"
              /\ OracleCalled = {}
              /\ log = <<>>
              /\ tracker.completed_files = <<>>
              /\ tracker.failed_files = <<>>

\* The confirmation was declined while the files of an earlier run were in
\* the output directory.
C18_Witness ==
    /\ args.recorded
    /\ ~args.resume_from
    /\ ~args.dry_run
    /\ args.response = "n"
    /\ pc = "cancelled"
    /\ disk_state.exists

(* ------------------- the Discovery Engine on its own ------------------ *)

\* Number of files under the project root.
MaxTree == 4

\* Largest max_files argument below the default.
MaxLimit == 2

\* max_files of discover_files and of convert_project when none is given.
DefaultMaxFiles == 25

\* _should_include_file leaves out a file of more than 100_000 bytes.
MaxFileSize == 100000

\* FileDiscovery.DEFAULT_EXCLUDE_DIRS
DEFAULT_EXCLUDE_DIRS ==
    {"__pycache__", ".git", ".svn", ".hg", "node_modules", ".venv", "venv",
     "env", "build", "dist", ".pytest_cache", ".tox", "vendor", "target",
     ".idea", ".vscode", "coverage", "htmlcov", ".mypy_cache"}

\* FileDiscovery.DEFAULT_EXCLUDE_PATTERNS (the order of the list plays no
\* part in matching: the patterns are kept as a set).
DEFAULT_EXCLUDE_PATTERNS ==
    {"*.pyc", "*.pyo", "*.pyd", ".DS_Store", "*.so", "*.dylib", "*.dll",
     "*.class", "*.min.js", "*.map", "*.test.*", "*.spec.*", "*_test.py",
     "test_*.py", "conftest.py", "setup.py", "__init__.py"}

\* The directories and the patterns a caller excludes in addition.
CallerDirs == {"tests"}

CallerPatterns == {"test_foo*", "util*"}

\* any(test in p for test in ["test", "spec"]): the patterns, among the
\* default and the caller's ones, whose text contains "test" or "spec".
NamesTests(p) ==
    p \in {"*.test.*", "*.spec.*", "*_test.py", "test_*.py", "conftest.py",
           "test_foo*"}

\* A file as discovery sees it: its name, the directories between the root
\* and the file, whether its name ends with an extension of the source
\* language, the patterns (of the default and the caller's ones) its name
\* matches, whether a .gitignore pattern matches it, its size, and the
\* words importance_score finds in its name or path.
File(name, dirs, words, ext, matches, ignored, size) ==
    [name |-> name, dirs |-> dirs, words |-> words, ext |-> ext,
     matches |-> matches, ignored |-> ignored, size |-> size]

\* The files a project root can hold.
Catalogue ==
    {File("main.py", <<>>, {"entry"}, TRUE, {}, FALSE, 100),
     File("config.py", <<>>, {"config"}, TRUE, {}, FALSE, 100),
     File("util.py", <<>>, {"util"}, TRUE, {"util*"}, FALSE, 100),
     File("test_foo.py", <<>>, {"test"}, TRUE, {"test_*.py", "test_foo*"},
          FALSE, 100),
     File("core.py", <<>>, {}, TRUE, {}, FALSE, MaxFileSize),
     File("app.py", <<>>, {"entry"}, TRUE, {}, FALSE, MaxFileSize + 1),
     File("notes.txt", <<>>, {}, FALSE, {}, FALSE, 100),
     File("helpers.py", <<"tests">>, {"util", "test"}, TRUE, {}, FALSE, 100),
     File("gen.py", <<"src", "build">>, {"model"}, TRUE, {}, FALSE, 100)}

\* The orders in which os.walk can list up to MaxTree of these files: top
\* down, the files of the root before those of its subdirectories.
Trees ==
    {t \in UNION {[1..n -> Catalogue] : n \in 0..MaxTree} :
        /\ \A i, j \in DOMAIN t : i # j => t[i] # t[j]
        /\ \A i, j \in DOMAIN t : i < j /\ t[j].dirs = <<>> => t[i].dirs = <<>>}

\* The max_files arguments: the small ones and the default.
Limits == (0..MaxLimit) \cup {DefaultMaxFiles}

\* No filters of the caller's.
Filters0 == [exclude_dirs |-> {}, exclude_patterns |-> {}]

\* The filters a caller can give: none, or the caller's directories and
\* patterns.
Filters ==
    {Filters0,
     [exclude_dirs |-> CallerDirs, exclude_patterns |-> CallerPatterns]}

\* Mutant of FileDiscovery: include_tests is not looked at.
FileDiscovery_ignores_include_tests(exclude_dirs, exclude_patterns, include_tests) ==
    [exclude_dirs     |-> DEFAULT_EXCLUDE_DIRS \cup exclude_dirs,
     exclude_patterns |-> DEFAULT_EXCLUDE_PATTERNS \cup exclude_patterns]

\* FileDiscovery.__init__: the defaults, then the caller's additions, and
\* with include_tests every pattern of the combined list that names tests
\* is taken out.
FileDiscovery(exclude_dirs, exclude_patterns, include_tests) ==
    LET combined == DEFAULT_EXCLUDE_PATTERNS \cup exclude_patterns
    IN  [exclude_dirs     |-> DEFAULT_EXCLUDE_DIRS \cup exclude_dirs,
         exclude_patterns |-> IF include_tests
                              THEN {p \in combined : ~NamesTests(p)}
                              ELSE combined]

\* Mutant of should_include_file: the exclude patterns are not looked at.
should_include_file_without_patterns(fd, f) ==
    /\ f.ext
    /\ ~f.ignored
    /\ ~(f.size > MaxFileSize)

\* Mutant of should_include_file: the size is not looked at.
should_include_file_whatever_size(fd, f) ==
    /\ f.ext
    /\ f.matches \cap fd.exclude_patterns = {}
    /\ ~f.ignored

\* FileDiscovery._should_include_file
should_include_file(fd, f) ==
    /\ f.ext
    /\ f.matches \cap fd.exclude_patterns = {}
    /\ ~f.ignored
    /\ ~(f.size > MaxFileSize)

\* Mutant of pruned: only the directories right under the root are looked at.
pruned_at_top_only(fd, f) ==
    /\ f.dirs # <<>>
    /\ f.dirs[1] \in fd.exclude_dirs

\* The filter on dirs in the loop over os.walk: a directory whose name is
\* in exclude_dirs is taken out of the walk at whatever level it is met,
\* so no file below it is listed.
pruned(fd, f) ==
    \E i \in DOMAIN f.dirs : f.dirs[i] \in fd.exclude_dirs

\* importance_score of _sort_by_importance: the first test that applies.
importance_score(f) ==
    CASE "entry" \in f.words    -> 0
      [] "config" \in f.words   -> 1
      [] "model" \in f.words    -> 2
      [] "route" \in f.words    -> 3
      [] "service" \in f.words  -> 4
      [] "database" \in f.words -> 5
      [] "util" \in f.words     -> 6
      [] "test" \in f.words     -> 8
      [] OTHER                  -> 7

\* Mutant of sort_by_importance: a file goes before the files of its own
\* score.
RECURSIVE sort_by_importance_unstable(_)
sort_by_importance_unstable(files) ==
    IF files = <<>> THEN <<>>
    ELSE LET n    == Len(files)
             f    == files[n]
             rest == sort_by_importance_unstable(SubSeq(files, 1, n - 1))
             k    == Cardinality({i \in DOMAIN rest :
                                     importance_score(rest[i]) < importance_score(f)})
         IN  SubSeq(rest, 1, k) \o <<f>> \o SubSeq(rest, k + 1, Len(rest))

\* sorted(files, key=importance_score), a stable sort: a file goes behind
\* the files before it whose score is not larger.
RECURSIVE sort_by_importance(_)
sort_by_importance(files) ==
    IF files = <<>> THEN <<>>
    ELSE LET n    == Len(files)
             f    == files[n]
             rest == sort_by_importance(SubSeq(files, 1, n - 1))
             k    == Cardinality({i \in DOMAIN rest :
                                     importance_score(rest[i]) <= importance_score(f)})
         IN  SubSeq(rest, 1, k) \o <<f>> \o SubSeq(rest, k + 1, Len(rest))

\* Mutant of walk: the walk does not stop at the limit.
RECURSIVE walk_without_limit(_, _, _, _)
walk_without_limit(fd, files, found, limit) ==
    IF files = <<>> THEN found
    ELSE IF pruned(fd, Head(files)) \/ ~should_include_file(fd, Head(files))
         THEN walk_without_limit(fd, Tail(files), found, limit)
         ELSE walk_without_limit(fd, Tail(files), Append(found, Head(files)), limit)

\* The two loops of discover_files over what os.walk lists: a file below
\* a pruned directory is not listed, a listed file that is to be included
\* is appended, and both loops are left as soon as the list has max_files
\* entries.
RECURSIVE walk(_, _, _, _)
walk(fd, files, found, limit) ==
    IF files = <<>> THEN found
    ELSE IF pruned(fd, Head(files)) \/ ~should_include_file(fd, Head(files))
         THEN walk(fd, Tail(files), found, limit)
         ELSE LET found1 == Append(found, Head(files))
              IN  IF Len(found1) >= limit THEN found1
                  ELSE walk(fd, Tail(files), found1, limit)

\* FileDiscovery.discover_files: walk, sort, and the slice [:max_files].
discover_files(fd, files, limit) ==
    LET sorted == sort_by_importance(walk(fd, files, <<>>, limit))
    IN  SubSeq(sorted, 1, Min(limit, Len(sorted)))

\* convert_project before it calls discover_files: exclude_dirs and
\* exclude_patterns of the call are added to the converter's FileDiscovery,
\* which keeps them; include_tests is not used.
run_discovery(fd, exclude_dirs, exclude_patterns, include_tests) ==
    [exclude_dirs     |-> fd.exclude_dirs \cup exclude_dirs,
     exclude_patterns |-> fd.exclude_patterns \cup exclude_patterns]

\* The arguments a FileDiscovery was made with, or a run was called with.
DiscoveryArgs(via, filters, include_tests) ==
    [recorded |-> TRUE, via |-> via, exclude_dirs |-> filters.exclude_dirs,
     exclude_patterns |-> filters.exclude_patterns,
     include_tests |-> include_tests]

\* Everything but tree, max_files, discovered, file_discovery, args and calls.
discoveryFrame == <<runVars, fresh, agent>>

\* A project root, a limit, and a FileDiscovery made with some arguments
\* (MultiFileConverter.__init__ makes it with none).
DiscoveryInit ==
    /\ RunInit
    /\ fresh = [stage |-> "none"]
    /\ calls = 0
    /\ tree \in Trees
    /\ max_files \in Limits
    /\ discovered = <<>>
    /\ agent = AgentIdle
    /\ \E filters \in Filters, include_tests \in BOOLEAN :
          /\ args = DiscoveryArgs("constructor", filters, include_tests)
          /\ file_discovery = FileDiscovery(filters.exclude_dirs,
                                            filters.exclude_patterns,
                                            include_tests)

\* discover_files is called on the FileDiscovery.
Discover ==
    /\ calls = 0
    /\ calls' = 1
    /\ discovered' = discover_files(file_discovery, tree, max_files)
    /\ UNCHANGED <<tree, max_files, file_discovery, args, discoveryFrame>>

\* convert_project of a MultiFileConverter, up to the list of files.
RunDiscover(filters, include_tests) ==
    /\ calls < MaxRuns
    /\ \/ args = DiscoveryArgs("constructor", Filters0, FALSE)
       \/ args.via = "run"
    /\ calls' = calls + 1
    /\ args' = DiscoveryArgs("run", filters, include_tests)
    /\ file_discovery' = run_discovery(file_discovery, filters.exclude_dirs,
                                       filters.exclude_patterns, include_tests)
    /\ discovered' = discover_files(file_discovery', tree, max_files)
    /\ UNCHANGED <<tree, max_files, discoveryFrame>>

DiscoveryNext ==
    \/ Discover
    \/ \E filters \in Filters, include_tests \in BOOLEAN :
          RunDiscover(filters, include_tests)

DiscoverySpec == DiscoveryInit /\ [][DiscoveryNext]_vars

\* A file of the tree that the FileDiscovery lists and includes.
Candidate(f) == ~pruned(file_discovery, f) /\ should_include_file(file_discovery, f)

\* The files of the tree that are to be included, in walk order.
Eligible == SelectSeq(tree, Candidate)

\* Where a file is in the walk.
PositionOf(f) == CHOOSE i \in DOMAIN tree : tree[i] = f

(* -------------------------------- C20 --------------------------------- *)

\* C20: discover_files returns at most max_files files; they are the first
\* min(max_files, number of eligible files) eligible files of the walk and
\* no file found later, in the order of their importance score, files of
\* equal score in walk order.
C20_FirstEligibleByPriority ==
    calls >= 1 =>
        LET n == Min(max_files, Len(Eligible))
        IN  /\ Len(discovered) <= max_files
            /\ Len(discovered) = n
            /\ Range(discovered) = Range(SubSeq(Eligible, 1, n))
            /\ \A i, j \in DOMAIN discovered :
                  i < j =>
                    \/ importance_score(discovered[i]) < importance_score(discovered[j])
                    \/ /\ importance_score(discovered[i]) = importance_score(discovered[j])
                       /\ PositionOf(discovered[i]) < PositionOf(discovered[j])

\* The limit was reached, the returned files were re-ordered, and an
\* eligible file further down the walk, of higher priority than every
\* returned file, was left out.
C20_Witness ==
    /\ calls = 1
    /\ max_files >= 2
    /\ Len(Eligible) > max_files
    /\ discovered # SubSeq(Eligible, 1, max_files)
    /\ \E k \in DOMAIN tree :
          /\ Candidate(tree[k])
          /\ tree[k] \notin Range(discovered)
          /\ \A i \in DOMAIN discovered :
                importance_score(tree[k]) < importance_score(discovered[i])

(* -------------------------------- C21 --------------------------------- *)

\* C21: the list discover_files returns is non-decreasing in the score of
\* the rank table (entry point 0, config 1, model 2, route 3, service 4,
\* database 5, utility 6, everything else 7, test 8), and two returned
\* files of the same score are in the order in which the walk met them.
C21_RankOrderStable ==
    \A i, j \in DOMAIN discovered :
        i < j =>
          /\ importance_score(discovered[i]) <= importance_score(discovered[j])
          /\ importance_score(discovered[i]) = importance_score(discovered[j])
                => PositionOf(discovered[i]) < PositionOf(discovered[j])

\* Two files of one score were returned, with a file of another score that
\* the walk had met before them and that the sort moved behind them.
C21_Witness ==
    /\ calls >= 1
    /\ \E i, j, k \in DOMAIN discovered :
          /\ i < j /\ j < k
          /\ importance_score(discovered[i]) = importance_score(discovered[j])
          /\ importance_score(discovered[j]) < importance_score(discovered[k])
          /\ PositionOf(discovered[k]) < PositionOf(discovered[i])

(* -------------------------------- C22 --------------------------------- *)

\* The names of a list of files.
NamesOf(files) == [i \in DOMAIN files |-> files[i].name]

\* The directory of the example: main.py, config.py, util.py and
\* test_foo.py, in whatever order the walk lists them, searched with a
\* FileDiscovery that has the default settings and no limit below four.
FourFilesByDefault ==
    /\ calls >= 1
    /\ file_discovery = FileDiscovery({}, {}, FALSE)
    /\ max_files = DefaultMaxFiles
    /\ Len(tree) = 4
    /\ Range(NamesOf(tree)) = {"main.py", "config.py", "util.py", "test_foo.py"}

\* C22 as stated: with the default settings the four files of the example
\* are all returned, test_foo.py last, and every returned file whose path
\* contains "test" is behind every returned file whose path does not.
C22_TestsReturnedLast ==
    /\ FourFilesByDefault =>
          NamesOf(discovered) = <<"main.py", "config.py", "util.py", "test_foo.py">>
    /\ \A i, j \in DOMAIN discovered :
          "test" \in discovered[i].words /\ "test" \notin discovered[j].words
              => j < i

\* C22, amended: with the default settings test_foo.py matches the default
\* exclude pattern test_*.py and the other three files of the example are
\* returned, in the order main.py, config.py, util.py; and a returned file
\* whose path contains "test" and that no earlier rank rule catches (score
\* 8) is behind every returned file whose path does not contain "test".
C22_TestsExcludedByDefault ==
    /\ FourFilesByDefault =>
          NamesOf(discovered) = <<"main.py", "config.py", "util.py">>
    /\ \A i, j \in DOMAIN discovered :
          importance_score(discovered[i]) = 8 /\ "test" \notin discovered[j].words
              => j < i

\* The example's directory was searched with the default settings, and the
\* walk had listed test_foo.py first and main.py last.
C22_Witness ==
    /\ FourFilesByDefault
    /\ tree[1].name = "test_foo.py"
    /\ tree[4].name = "main.py"
    /\ discovered # <<>>

(* -------------------------------- C23 --------------------------------- *)

\* A FileDiscovery made with include_tests has searched the tree, with no
\* limit that cuts the list.
SearchedWithTests ==
    /\ calls >= 1
    /\ args.via = "constructor"
    /\ args.include_tests
    /\ max_files = DefaultMaxFiles

\* What keeps a file out whatever the patterns are: its extension, a
\* pruned directory above it, .gitignore, its size.
PassesOtherFilters(f) ==
    /\ f.ext
    /\ ~f.ignored
    /\ ~(f.size > MaxFileSize)
    /\ ~pruned(file_discovery, f)

\* The returned files are those that match none of the patterns.
ReturnedBut(patterns) ==
    \A f \in Range(tree) :
        f \in Range(discovered) <=>
            PassesOtherFilters(f) /\ f.matches \cap patterns = {}

\* C23 as stated: with include_tests the default patterns naming tests are
\* dropped and only those, the caller's patterns all stay active; and a
\* returned test file that no other rank rule catches is ranked with
\* "everything else": it is before any such file that the walk met later.
C23_TestsRankedAsEverythingElse ==
    SearchedWithTests =>
        /\ ReturnedBut({p \in DEFAULT_EXCLUDE_PATTERNS : ~NamesTests(p)}
                          \cup args.exclude_patterns)
        /\ \A i, j \in DOMAIN discovered :
              /\ discovered[i].words = {"test"}
              /\ discovered[j].words = {}
              /\ PositionOf(discovered[i]) < PositionOf(discovered[j])
              => i < j

\* C23, amended: with include_tests every pattern naming tests is dropped,
\* the default ones and the ones the caller gave to the constructor, and
\* the other patterns stay active; a returned test file that no other rank
\* rule catches has the lowest rank: it is behind every returned file of
\* another rank.
C23_TestsIncludedAtLowestRank ==
    SearchedWithTests =>
        /\ ReturnedBut({p \in DEFAULT_EXCLUDE_PATTERNS \cup args.exclude_patterns :
                          ~NamesTests(p)})
        /\ \A i, j \in DOMAIN discovered :
              /\ discovered[i].words = {"test"}
              /\ importance_score(discovered[j]) # importance_score(discovered[i])
              => j < i

\* With include_tests and the caller's patterns, test_foo.py was returned
\* although the walk met it first, behind a file of no special kind, and
\* util.py, which matches a pattern of the caller's, was not returned.
C23_Witness ==
    /\ SearchedWithTests
    /\ args.exclude_patterns = CallerPatterns
    /\ Len(tree) = 3
    /\ tree[1].name = "test_foo.py"
    /\ tree[2].name = "util.py"
    /\ tree[3].name = "core.py"
    /\ NamesOf(discovered) = <<"core.py", "test_foo.py">>

(* -------------------------------- C24 --------------------------------- *)

\* C24 as stated: the list of files a run works on is the list that
\* discover_files returns for the same tree and limit from a FileDiscovery
\* made with the exclude_dirs, exclude_patterns and include_tests of that
\* run, and with nothing of an earlier run.
C24_RunDiscoversWithItsOwnFilters ==
    (calls >= 1 /\ args.via = "run") =>
        discovered =
            discover_files(FileDiscovery(args.exclude_dirs, args.exclude_patterns,
                                         args.include_tests),
                           tree, max_files)

(* -------------------------------- C25 --------------------------------- *)

\* C25 as stated: no returned file has a size at or above the limit.
C25_NoFileAtOrAboveLimit ==
    \A i \in DOMAIN discovered : discovered[i].size < MaxFileSize

\* C25, amended: no returned file is larger than the limit of 100,000
\* bytes; a file of exactly the limit can be returned.
C25_NoFileAboveLimit ==
    \A i \in DOMAIN discovered : ~(discovered[i].size > MaxFileSize)

\* The walk met app.py, an entry point of one byte more than the limit,
\* before a file of exactly the limit; the search returned, and what it
\* returned is the second file and not the first.
C25_Witness ==
    /\ calls >= 1
    /\ Len(tree) >= 2
    /\ tree[1].size = MaxFileSize + 1
    /\ tree[1].ext
    /\ tree[2].size = MaxFileSize
    /\ tree[2] \in Range(discovered)
    /\ tree[1] \notin Range(discovered)

(* -------------------------------- C26 --------------------------------- *)

\* C26: no returned file has, at any depth between the root and itself, a
\* directory whose name is in the default exclude set or among the
\* exclude_dirs the caller gave.
C26_NothingBelowExcludedDirectory ==
    \A i \in DOMAIN discovered :
        \A k \in DOMAIN discovered[i].dirs :
            discovered[i].dirs[k] \notin DEFAULT_EXCLUDE_DIRS \cup args.exclude_dirs

\* The tree held a file of the source language two levels down, below a
\* directory of the default exclude set, and one below a directory the
\* caller excluded; the search returned other files and neither of them.
C26_Witness ==
    /\ calls >= 1
    /\ args.exclude_dirs = CallerDirs
    /\ discovered # <<>>
    /\ \E f, g \in Range(tree) :
          /\ Len(f.dirs) = 2 /\ f.dirs[2] \in DEFAULT_EXCLUDE_DIRS
          /\ g.dirs = <<"tests">>
          /\ should_include_file(file_discovery, f)
          /\ should_include_file(file_discovery, g)
          /\ f \notin Range(discovered)
          /\ g \notin Range(discovered)

(* -------------------------------- C27 --------------------------------- *)

\* C27: get_conversion(s) returns the target of the most recent
\* add_conversion whose source is s, whatever the kinds of the calls, and
\* None when there was no add_conversion with source s.
C27_LastWriteWins ==
    args.op = "get_conversion" =>
        LET s == args.input[1]
        IN  IF args.last[s] = None
            THEN ~args.result.found /\ args.result.target = None
            ELSE args.result.found /\ args.result.target = args.last[s]

\* get_conversion found a symbol that had been added twice, the first time
\* as a class with another target than the one it returned.
C27_Witness ==
    /\ args.op = "get_conversion"
    /\ args.result.found
    /\ \E e \in Range(cache.class_mappings) :
          e.source = args.input[1] /\ e.target # args.result.target

(* -------------------------------- C28 --------------------------------- *)

\* The five indexes of a cache, each with the order of its entries.
IndexesOf(ca) ==
    <<ca.symbol_mappings, ca.type_mappings, ca.import_mappings,
      ca.function_mappings, ca.class_mappings>>

\* C28: every add_conversion raises total_symbols by one, and an
\* add_conversion that repeats the call before it, with the same source,
\* target and kind, leaves the five indexes, the order of their entries
\* included, as the first of the two calls left them.
C28_RepeatedAddKeepsIndexes ==
    args.op = "add_conversion" =>
        /\ cache.stats.total_symbols = args.before.stats.total_symbols + 1
        /\ args.repeated => IndexesOf(cache) = IndexesOf(args.before)

\* A class mapping that the cache held was added twice in a row, with
\* another symbol behind it in the general index.
C28_Witness ==
    /\ args.op = "add_conversion"
    /\ args.repeated
    /\ args.input[3] = "class"
    /\ Len(cache.symbol_mappings) = 2
    /\ cache.symbol_mappings[1].source = args.input[1]
    /\ cache.stats.total_symbols = 4

(* -------------------------------- C29 --------------------------------- *)

\* C29 as stated: every entry of the class, function, type or import index
\* is in the general index with the same source and the same target.
C29_CategoryEntriesMirrored ==
    \A e \in Range(cache.class_mappings) \cup Range(cache.function_mappings)
                \cup Range(cache.type_mappings) \cup Range(cache.import_mappings) :
        e \in Range(cache.symbol_mappings)

(* -------------------------------- C30 --------------------------------- *)

\* C30: a call of get_conversion changes nothing of the cache but
\* reused_symbols, which it raises by one when the source is in the
\* general index and leaves alone when it is not; add_conversion,
\* add_pattern, mark_file_processed, get_context_for_file and save_to_file
\* leave reused_symbols alone (load_from_file, which replaces the
\* statistics by those of the file, is not among the calls meant).
C30_OnlyLookupCountsReuse ==
    [][IF args'.op = "get_conversion" /\ calls' = calls + 1
       THEN LET hit == \E e \in Range(cache.symbol_mappings) :
                           e.source = args'.input[1]
            IN  cache' = [cache EXCEPT !.stats.reused_symbols =
                                           IF hit THEN @ + 1 ELSE @]
       ELSE args'.op # "load_from_file" =>
                cache'.stats.reused_symbols = cache.stats.reused_symbols]_vars

\* get_conversion missed a symbol after it had found another one, on a
\* cache with a mapping.
C30_Witness ==
    /\ args.op = "get_conversion"
    /\ ~args.result.found
    /\ cache.stats.reused_symbols = 1
    /\ cache.symbol_mappings # <<>>
    /\ cache = args.before

(* -------------------------------- C31 --------------------------------- *)

\* The last n elements of a sequence.
MostRecent(s, n) == SubSeq(s, Len(s) - n + 1, Len(s))

\* C31 as stated: get_context_for_file returns as cached_symbols the
\* min(max_context_items, n) mappings of the general index whose sources
\* were added most recently, a source that was added again counting by its
\* latest add_conversion; never more than max_context_items, and none for
\* max_context_items <= 0.
C31_ContextHoldsLatestAdded ==
    args.op = "get_context_for_file" =>
        LET max_items == args.input[1]
            got       == args.result.cached_symbols
            n         == Len(args.order)
            k         == IF max_items <= 0 THEN 0 ELSE Min(max_items, n)
        IN  /\ Len(got) = k
            /\ {got[i].source : i \in DOMAIN got} = Range(MostRecent(args.order, k))
            /\ \A i \in DOMAIN got : got[i].target = args.last[got[i].source]

(* -------------------------------- C32 --------------------------------- *)

\* The three buckets of a tracker, as sets of paths.
BucketNames == {"completed", "failed", "skipped"}

BucketsOf(tr) ==
    [b \in BucketNames |->
        CASE b = "completed" -> CompletedOf(tr)
          [] b = "failed"    -> FailedOf(tr)
          [] OTHER           -> SkippedOf(tr)]

\* A call of start_file, complete_file, fail_file or skip_file for a file.
CallOn(file) ==
    \/ StartFile(file)
    \/ \E tokens_used \in ApiTokens, cost \in ApiCosts :
          CompleteFile(file, tokens_used, cost)
    \/ \E error \in ApiErrors : FailFile(file, error)
    \/ SkipFile(file)

RECURSIVE RequestsOf(_)
RequestsOf(steps) ==
    IF steps = <<>> THEN <<>>
    ELSE RequestsOf(SubSeq(steps, 1, Len(steps) - 1)) \o steps[Len(steps)].requests

\* C33: in one run the oracle receives at most one request for a path,
\* also when the request fails, and the paths of its requests follow one
\* another in the order of the candidate list.
C33_OneRequestPerPathInOrder ==
    LET sent == RequestsOf(log)
    IN  \A i, j \in DOMAIN sent :
            i < j => sent[i].source_code < sent[j].source_code

\* A run with continue_on_error came to its end after the oracle had
\* failed for a file and answered for a later one.
C33_Witness ==
    /\ pc = "done"
    /\ continue_on_error
    /\ \E i, j \in DOMAIN log :
          /\ i < j
          /\ log[i].outcome = "oracle_error"
          /\ log[i].requests # <<>>
          /\ log[j].outcome = "ok"
    /\ Len(RequestsOf(log)) >= 3

(* ------------------- a run on a disk that can refuse writes ----------- *)

\* What the per-file step can meet when the output file may be unwritable.
FaultOutcomesOf(p) == OutcomesOf(p) \cup {"unsaved"}

\* The last run of a behaviour is about to start, over what an earlier run
\* has left.
FaultInit == GateInit

\* The iteration on a disk that may refuse any of its writes.
ConvertFileOnDisk(outcome, state_writable, cache_writable) ==
    /\ idx <= Len(Files)
    /\ outcome \in FaultOutcomesOf(Files[idx])
    /\ LoopStep(outcome, state_writable, cache_writable)

FaultNext ==
    \/ \E resume_from \in BOOLEAN, coe \in BOOLEAN :
          StartRun(resume_from, FALSE, IF resume_from THEN "none" ELSE "y",
                   coe, TRUE, Files)
    \/ SkipProcessed
    \/ \E outcome \in Outcomes, state_writable \in BOOLEAN, cache_writable \in BOOLEAN :
          ConvertFileOnDisk(outcome, state_writable, cache_writable)
    \/ \E state_writable \in BOOLEAN, cache_writable \in BOOLEAN :
          FinalStep(state_writable, cache_writable)

FaultSpec == FaultInit /\ [][FaultNext]_vars

(* -------------------------------- C34 --------------------------------- *)

\* C34: no failure to write the state file or the cache file, at a
\* periodic or at the final persist, takes the run away from its loop or
\* from returning its result.
C34_WriteFailureNeverAborts == pc # "save_failed"

(* -------------------------------- C37 --------------------------------- *)

\* C37: a path this run has put into completed_files is one whose
\* converted text was written to its output file.
C37_CompletedOnlyIfSaved ==
    \A i \in DOMAIN log :
        log[i].file \in CompletedOf(tracker) => log[i].saved

(* -------------------------------- C35 --------------------------------- *)

\* The keys of a dictionary, and the sum of its values.
KeysOf(d) == {d[i].key : i \in DOMAIN d}

RECURSIVE SumOfValues(_)
SumOfValues(d) ==
    IF d = <<>> THEN 0
    ELSE SumOfValues(SubSeq(d, 1, Len(d) - 1)) + d[Len(d)].value

\* d[key] == value for a key of the dictionary.
HasItem(d, key, value) == \E i \in DOMAIN d : d[i].key = key /\ d[i].value = value

\* The totals are the sums of the entries per file.
TotalsAreSums(tr) ==
    /\ tr.total_tokens = SumOfValues(tr.tokens_per_file)
    /\ tr.total_cost = SumOfValues(tr.cost_per_file)

\* The entries per file are entries of completed files.
KeysAreCompleted(tr) ==
    /\ KeysOf(tr.tokens_per_file) \subseteq CompletedOf(tr)
    /\ KeysOf(tr.cost_per_file) \subseteq CompletedOf(tr)

\* The call that was just made is complete_file, and it added this number
\* of tokens to the total.
Charged(before, after) == after.total_tokens - before.total_tokens

\* complete_file added the tokens it was given: the number is one a caller
\* can give and, when it is not zero, it is the entry of the completed file.
ChargedAsGiven(before, after) ==
    LET file == after.completed_files[Len(after.completed_files)]
    IN  /\ Charged(before, after) \in ApiTokens
        /\ Charged(before, after) # 0 =>
              HasItem(after.tokens_per_file, file, Charged(before, after))

RECURSIVE UsageOfCompleted(_)
UsageOfCompleted(steps) ==
    IF steps = <<>> THEN 0
    ELSE UsageOfCompleted(SubSeq(steps, 1, Len(steps) - 1))
            + (IF steps[Len(steps)].outcome = "ok"
               THEN Usage(steps[Len(steps)].file).total_tokens ELSE 0)

\* C36: at the end of a run that started with an empty tracker, the entry
\* of every file the run completed is what the oracle consumed for that
\* file, and total_tokens is the sum of these numbers.
C36_EachFileChargedItsOwnUsage ==
    (pc = "done" /\ ~resumed) =>
        /\ \A i \in DOMAIN log :
              log[i].outcome = "ok" =>
                  HasItem(tracker.tokens_per_file, log[i].file,
                          Usage(log[i].file).total_tokens)
        /\ tracker.total_tokens = UsageOfCompleted(log)

(* -------------------------------- C38 --------------------------------- *)

\* C38: a call with resume_from whose state file does not exist loads
\* nothing and goes the way of a call without resume_from: a dry run
\* returns before the loop, and the loop is entered only after the answer
\* y to the confirmation.
C38_MissingStateFileMeansFreshRun ==
    (args.recorded /\ args.source_exists /\ args.found # <<>>
        /\ args.resume_from /\ ~resumed) =>
        /\ CompletedOf(loaded) \cup FailedOf(loaded) \cup SkippedOf(loaded) = {}
        /\ loaded.total_tokens = 0
        /\ args.dry_run => pc = "dry"
        /\ pc \in {"loop", "done"} => args.response = "y"

(* ------------------ the LangGraph agent (agent.py) -------------------- *)

\* What the model's answer to discover_files can list: paths, and entries
\* that are no strings (_extract_json_list accepts every JSON list).
AgentEntries == {None, 1, 2}

\* The lists of at most n entries.
RECURSIVE ListsOver(_, _)
ListsOver(S, n) ==
    IF n = 0 THEN {<<>>}
    ELSE ListsOver(S, n - 1)
            \cup {Append(l, x) : l \in {m \in ListsOver(S, n - 1) : Len(m) = n - 1},
                                 x \in S}

\* What the model answers for a file: the JSON says converted, the JSON
\* says not converted (or is no JSON), or the call raises.
AgentOutcomes == {"converted", "failed", "exception"}

\* How the graph takes the dictionary a node returns into the state:
\* converted_files and failed_files are declared with operator.add, so the
\* returned list is appended to the list of the state; every other field
\* takes the returned value.
Reduce(state, update) ==
    [update EXCEPT !.converted_files = state.converted_files \o @,
                   !.failed_files = state.failed_files \o @]

\* ConversionAgent.analyze_project: {**state, messages, project_analysis}.
analyze_project(state) == state

\* ConversionAgent.discover_files: {**state, ...} with the list of files
\* and the counters and lists set anew.
agent_discover_files(state, files) ==
    [state EXCEPT !.files_to_convert = files,
                  !.current_file_index = 0,
                  !.files_completed = 0,
                  !.files_failed = 0,
                  !.converted_files = <<>>,
                  !.failed_files = <<>>]

\* ConversionAgent.convert_file: the state as it is when there is nothing
\* left to convert; otherwise Path(file_path) is taken before the try block,
\* which raises for an entry that is no string, and the three branches
\* return {**state, ...} with one new entry, the next index and one counter
\* raised.
convert_file(state, outcome) ==
    LET current_idx == state.current_file_index
        file_path   == state.files_to_convert[current_idx + 1]
    IN  IF state.files_to_convert = <<>> \/ current_idx >= Len(state.files_to_convert)
        THEN [raised |-> FALSE, update |-> state]
        ELSE IF file_path = None
        THEN [raised |-> TRUE, update |-> state]
        ELSE IF outcome = "converted"
        THEN [raised |-> FALSE,
              update |-> [state EXCEPT
                            !.converted_files = <<[source |-> file_path]>>,
                            !.current_file_index = current_idx + 1,
                            !.files_completed = @ + 1]]
        ELSE [raised |-> FALSE,
              update |-> [state EXCEPT
                            !.failed_files = <<[file |-> file_path, error |-> outcome]>>,
                            !.current_file_index = current_idx + 1,
                            !.files_failed = @ + 1]]

\* ConversionAgent.should_continue
should_continue(state) ==
    IF state.current_file_index >= Len(state.files_to_convert)
    THEN "end" ELSE "continue"

\* Everything but agent.
agentFrame ==
    <<runVars, args, calls, fresh, tree, max_files, discovered, file_discovery>>

\* The entry point of the graph.
AnalyzeProject ==
    /\ agent.node = "entry"
    /\ agent' = [agent EXCEPT !.node = "analyze_project",
                              !.state = Reduce(@, analyze_project(@))]
    /\ UNCHANGED agentFrame

\* The edge analyze_project -> discover_files.
DiscoverFiles(files) ==
    /\ agent.node = "analyze_project"
    /\ agent' = [agent EXCEPT !.node = "discover_files",
                              !.state = Reduce(@, agent_discover_files(@, files))]
    /\ UNCHANGED agentFrame

\* The edge discover_files -> convert_file and the conditional edge
\* convert_file -> convert_file: the node runs, the graph takes what it
\* returned and asks should_continue; an exception of the node ends
\* app.invoke.
ConvertStep(outcome) ==
    /\ agent.node \in {"discover_files", "convert_file"}
    /\ LET r  == convert_file(agent.state, outcome)
           s1 == Reduce(agent.state, r.update)
       IN  agent' =
             IF r.raised
             THEN [agent EXCEPT !.node = "raised", !.steps = @ + 1]
             ELSE [node  |-> IF should_continue(s1) = "end" THEN "END"
                             ELSE "convert_file",
                   steps |-> agent.steps + 1,
                   state |-> s1]
    /\ UNCHANGED agentFrame

AgentNext ==
    \/ AnalyzeProject
    \/ \E files \in ListsOver(AgentEntries, MaxAgentFiles) : DiscoverFiles(files)
    \/ \E outcome \in AgentOutcomes : ConvertStep(outcome)

AgentSpec == Init /\ [][AgentNext]_vars

(* -------------------------------- C39 --------------------------------- *)

\* The convert_file steps have gone through the list one file a step.
OneFileAStep ==
    /\ agent.state.current_file_index
          = Min(agent.steps, Len(agent.state.files_to_convert))
    /\ agent.state.files_completed + agent.state.files_failed
          = agent.state.current_file_index

\* END is reached exactly when the index has reached the length of the
\* list, after as many steps as the list is long, one for an empty list.
EndsAfterTheList ==
    /\ agent.node = "END" <=>
          agent.state.current_file_index >= Len(agent.state.files_to_convert)
    /\ agent.node = "END" =>
          agent.steps = (IF agent.state.files_to_convert = <<>> THEN 1
                         ELSE Len(agent.state.files_to_convert))

\* C39: after every convert_file step, whatever happened to the file, the
\* index is the number of steps made and the sum of the two counters, and
\* the graph is at END exactly when the index has reached the end of the
\* list.
C39_LoopCountsAndEnds ==
    agent.steps > 0 => (OneFileAStep /\ EndsAfterTheList)

(* -------------------------------- C40 --------------------------------- *)

\* C40: after every convert_file step the two lists are as long as their
\* counters say.
C40_ListsMatchCounters ==
    agent.steps > 0 =>
        /\ Len(agent.state.converted_files) = agent.state.files_completed
        /\ Len(agent.state.failed_files) = agent.state.files_failed

====
